---- MODULE Spec2Model ----
(***************************************************************************)
(* A model of the 6502 computer emulator: the instruction engine (cpu.rs), *)
(* the bus (mapper.rs), the register bank (interface_adapter.rs) and the   *)
(* construction of the machine (main.rs).                                  *)
(*                                                                         *)
(* Integer arithmetic is the wrapping arithmetic of the optimised build    *)
(* (every file carries #![allow(arithmetic_overflow)]): u8 and u16         *)
(* additions and subtractions are taken modulo 2^8 and 2^16, and a shift   *)
(* by the full width of its operand shifts by the amount modulo the width. *)
(*                                                                         *)
(* The machine is handled as a record (one field per field of CPU, Map and *)
(* Adapter) so that operations compose; the variables hold the fields of   *)
(* the running machine.  ram, rom and cart_rom are sparse: a byte that is  *)
(* not in the domain is 0, which is how the three vectors are created.     *)
(***************************************************************************)
EXTENDS Integers, Sequences, FiniteSets, TLC

VARIABLES
    pc, sp, a, x, y, flags,          \* CPU
    fbuf_changed, rom, ram,          \* Map
    port_a, port_b, keyb, mouse_x, mouse_y, rom_ptr, cart_rom, interrupt_id,  \* Adapter
    aborted,                         \* the process has panicked
    hist                             \* the operations performed so far, with their pre-states

cpu_vars == <<pc, sp, a, x, y, flags>>
map_vars == <<fbuf_changed, rom, ram>>
adapter_vars == <<port_a, port_b, keyb, mouse_x, mouse_y, rom_ptr, cart_rom, interrupt_id>>
vars == <<cpu_vars, map_vars, adapter_vars, aborted, hist>>

(***************************************************************************)
(* Bit arithmetic on naturals.                                             *)
(***************************************************************************)
RECURSIVE And(_, _)
And(m, n) == IF m = 0 \/ n = 0 THEN 0
             ELSE (m % 2) * (n % 2) + 2 * And(m \div 2, n \div 2)

RECURSIVE Or(_, _)
Or(m, n) == IF m = 0 THEN n ELSE IF n = 0 THEN m
            ELSE (IF m % 2 = 1 \/ n % 2 = 1 THEN 1 ELSE 0) + 2 * Or(m \div 2, n \div 2)

RECURSIVE Xor(_, _)
Xor(m, n) == IF m = 0 THEN n ELSE IF n = 0 THEN m
             ELSE ((m + n) % 2) + 2 * Xor(m \div 2, n \div 2)

Not8(m) == 255 - m
U8(n) == n % 256
U16(n) == n % 65536
\* x << k and x >> k on a u16: the shift amount is taken modulo the width
Shl16(m, k) == (m * 2^(k % 16)) % 65536
Shr(m, k) == m \div 2^k
\* (b as i8) as i64
I8(b) == IF b >= 128 THEN b - 256 ELSE b

(***************************************************************************)
(* Sparse byte arrays (Vec<u8> created by vec![0; n]).                     *)
(***************************************************************************)
Load(mem, i) == IF i \in DOMAIN mem THEN mem[i] ELSE 0
Store(mem, i, v) ==
    IF v = 0 THEN [j \in DOMAIN mem \ {i} |-> mem[j]]
    ELSE [j \in DOMAIN mem \cup {i} |-> IF j = i THEN v ELSE mem[j]]

(***************************************************************************)
(* interface_adapter.rs                                                    *)
(***************************************************************************)
KEYDOWN == 255
KEYUP == 254
MOUSE_LCLICK == 253
MOUSE_RCLICK == 252

\* a register bank whose register 8 stores into the cartridge image
Adapter_write_byte_to_cartridge(s, value, address) ==
    CASE address = 0 -> [s EXCEPT !.port_b = value]
      [] address = 1 -> [s EXCEPT !.port_a = value]
      [] address = 2 -> [s EXCEPT !.keyb = value]
      [] address = 3 -> [s EXCEPT !.mouse_x = value]
      [] address = 4 -> [s EXCEPT !.mouse_y = value]
      [] address = 5 -> [s EXCEPT !.rom_ptr = Or(And(s.rom_ptr, 16776960), value)]
      [] address = 6 -> [s EXCEPT !.rom_ptr = Or(And(s.rom_ptr, 16711935), value * 256)]
      [] address = 7 -> [s EXCEPT !.rom_ptr = Or(And(s.rom_ptr, 65535), value * 65536)]
      [] address = 8 -> [s EXCEPT !.cart_rom = Store(@, s.rom_ptr, value)]
      [] address = 9 -> s
      [] address = 15 -> [s EXCEPT !.interrupt_id = value]
      [] OTHER -> s

Adapter_write_byte(s, value, address) ==
    CASE address = 0 -> [s EXCEPT !.port_b = value]
      [] address = 1 -> [s EXCEPT !.port_a = value]
      [] address = 2 -> [s EXCEPT !.keyb = value]
      [] address = 3 -> [s EXCEPT !.mouse_x = value]
      [] address = 4 -> [s EXCEPT !.mouse_y = value]
      [] address = 5 -> [s EXCEPT !.rom_ptr = Or(And(s.rom_ptr, 16776960), value)]
      [] address = 6 -> [s EXCEPT !.rom_ptr = Or(And(s.rom_ptr, 16711935), value * 256)]
      [] address = 7 -> [s EXCEPT !.rom_ptr = Or(And(s.rom_ptr, 65535), value * 65536)]
      [] address = 8 -> [s EXCEPT !.aborted = TRUE]
      [] address = 9 -> s
      [] address = 15 -> [s EXCEPT !.interrupt_id = value]
      [] OTHER -> s

\* a register bank that returns the shifted pointer without cutting it to a byte
Adapter_read_byte_uncut(s, address, rnd) ==
    CASE address = 0 -> s.port_b
      [] address = 1 -> s.port_a
      [] address = 2 -> s.keyb
      [] address = 3 -> s.mouse_x
      [] address = 4 -> s.mouse_y
      [] address = 5 -> And(s.rom_ptr, 255)
      [] address = 6 -> Shr(s.rom_ptr, 8)
      [] address = 7 -> Shr(s.rom_ptr, 16)
      [] address = 8 -> Load(s.cart_rom, s.rom_ptr)
      [] address = 9 -> rnd
      [] address = 15 -> s.interrupt_id
      [] OTHER -> 0

\* rnd is the byte the random source yields if this read draws from it
Adapter_read_byte(s, address, rnd) ==
    CASE address = 0 -> s.port_b
      [] address = 1 -> s.port_a
      [] address = 2 -> s.keyb
      [] address = 3 -> s.mouse_x
      [] address = 4 -> s.mouse_y
      [] address = 5 -> And(s.rom_ptr, 255)
      [] address = 6 -> U8(Shr(s.rom_ptr, 8))
      [] address = 7 -> U8(Shr(s.rom_ptr, 16))
      [] address = 8 -> Load(s.cart_rom, s.rom_ptr)
      [] address = 9 -> rnd
      [] address = 15 -> s.interrupt_id
      [] OTHER -> 0

Adapter_write_word(s, value, address) ==
    CASE address = 0 -> [s EXCEPT !.port_b = And(value, 255), !.port_a = Shr(value, 8)]
      [] address = 1 -> [s EXCEPT !.port_a = And(value, 255), !.keyb = Shr(value, 8)]
      [] address = 2 -> [s EXCEPT !.keyb = And(value, 255), !.mouse_x = Shr(value, 8)]
      [] address = 3 -> [s EXCEPT !.mouse_x = And(value, 255), !.mouse_y = Shr(value, 8)]
      [] address = 4 -> [s EXCEPT !.mouse_y = And(value, 255),
                                  !.rom_ptr = Or(And(s.rom_ptr, 16776960), Shr(value, 8))]
      [] address = 5 -> [s EXCEPT !.rom_ptr = Or(And(s.rom_ptr, 16711680), value)]
      [] address = 6 -> [s EXCEPT !.rom_ptr = Or(And(s.rom_ptr, 255), Shl16(value, 8))]
      [] address = 7 -> [s EXCEPT !.rom_ptr = Or(And(s.rom_ptr, 65535), Shl16(And(value, 255), 16)),
                                  !.interrupt_id = Shr(value, 8)]
      [] address = 8 -> s
      [] address = 9 -> s
      [] address = 15 -> [s EXCEPT !.interrupt_id = And(value, 255)]
      [] OTHER -> s

\* a register bank that never asks the bus for the adjoining RAM byte
Adapter_write_word_ret_never(address) == FALSE

\* the bool Adapter::write_word returns: the bus must write the adjoining RAM byte
Adapter_write_word_ret(address) == address = 15

\* Adapter::read_word is an Option<u16>: None for the interrupt-id register
Adapter_read_word_is_some(address) == address # 15

Adapter_read_word(s, address, rnd) ==
    CASE address = 0 -> Or(s.port_b, s.port_a * 256)
      [] address = 1 -> Or(s.port_a, s.keyb * 256)
      [] address = 2 -> Or(s.keyb, s.mouse_x * 256)
      [] address = 3 -> Or(s.mouse_x, s.mouse_y * 256)
      [] address = 4 -> Or(s.mouse_y, U16(And(s.rom_ptr, 255) * 256))
      [] address = 5 -> And(s.rom_ptr, 65535)
      [] address = 6 -> U16(Shr(And(s.rom_ptr, 16776960), 8))
      [] address = 7 -> Or(U16(Shr(s.rom_ptr, 16)), Shl16(Load(s.cart_rom, s.rom_ptr), 8))
      [] address = 8 -> Or(Load(s.cart_rom, s.rom_ptr), Shl16(rnd, 8))
      [] address = 9 -> rnd
      [] OTHER -> 0

(***************************************************************************)
(* mapper.rs                                                               *)
(***************************************************************************)
\* a framebuffer range that ends one byte early
InFbuf_short(address) == address >= 24592 /\ address < 28688
InFbuf(address) == address >= 24592 /\ address <= 28688
\* a register window that ends at register 9
InAdapter_short(address) == address >= 24576 /\ address <= 24585
InAdapter(address) == address >= 24576 /\ address <= 24591

\* a bus on which a byte write reaches the ROM
Map_write_byte_through(s, value, address) ==
    IF address <= 32767
    THEN IF InAdapter(address)
         THEN Adapter_write_byte(s, value, And(address, 15))
         ELSE [s EXCEPT !.fbuf_changed = IF InFbuf(address) THEN TRUE ELSE @,
                        !.ram = Store(@, address, value)]
    ELSE [s EXCEPT !.rom = Store(@, And(address, 32767), value)]

\* a bus without the register window: every byte write below 0x8000 lands in RAM
Map_write_byte_flat(s, value, address) ==
    IF address <= 32767
    THEN [s EXCEPT !.fbuf_changed = IF InFbuf(address) THEN TRUE ELSE @,
                   !.ram = Store(@, address, value)]
    ELSE s

Map_write_byte(s, value, address) ==
    IF address <= 32767
    THEN IF InAdapter(address)
         THEN Adapter_write_byte(s, value, And(address, 15))
         ELSE [s EXCEPT !.fbuf_changed = IF InFbuf(address) THEN TRUE ELSE @,
                        !.ram = Store(@, address, value)]
    ELSE s

Map_read_byte(s, address, rnd) ==
    IF address <= 32767
    THEN IF InAdapter(address)
         THEN Adapter_read_byte(s, And(address, 15), rnd)
         ELSE Load(s.ram, address)
    ELSE Load(s.rom, And(address, 32767))

Map_write_word(s, value, address) ==
    IF address <= 32767
    THEN IF InAdapter(address)
         THEN LET t == Adapter_write_word(s, value, And(address, 15)) IN
              IF Adapter_write_word_ret(And(address, 15))
              THEN [t EXCEPT !.fbuf_changed = IF InFbuf(address + 1) THEN TRUE ELSE @,
                             !.ram = Store(@, address + 1, Shr(value, 8))]
              ELSE t
         ELSE LET t == [s EXCEPT !.fbuf_changed =
                                     IF InFbuf(address) \/ InFbuf(address + 1) THEN TRUE ELSE @,
                                 !.ram = Store(@, address, And(value, 255))] IN
              IF address + 1 < 32767
              THEN [t EXCEPT !.ram = Store(@, address + 1, Shr(value, 8))]
              ELSE t
    ELSE s

Map_read_word(s, address, rnd) ==
    IF address <= 32767
    THEN IF InAdapter(address)
         THEN IF Adapter_read_word_is_some(And(address, 15))
              THEN Adapter_read_word(s, And(address, 15), rnd)
              ELSE Or(s.interrupt_id, Load(s.ram, address + 1) * 256)
         ELSE IF address + 1 <= 32767
              THEN Or(Load(s.ram, address), Load(s.ram, address + 1) * 256)
              ELSE Or(Load(s.ram, address), Load(s.rom, And(address + 1, 32767)) * 256)
    ELSE Or(Load(s.rom, And(address, 32767)), Load(s.rom, And(U16(address + 1), 32767)) * 256)

(***************************************************************************)
(* opcodes.rs                                                              *)
(***************************************************************************)
NOP == 234
LDA_IMMEDIATE == 169
LDA_ZERO_PAGE == 165
LDA_ZERO_PAGE_X == 181
LDA_ABSOLUTE == 173
LDA_ABSOLUTE_X == 189
LDA_ABSOLUTE_Y == 185
LDA_INDIRECT_X == 161
LDA_INDIRECT_Y == 177
LDX_IMMEDIATE == 162
LDX_ZERO_PAGE == 166
LDX_ZERO_PAGE_Y == 182
LDX_ABSOLUTE == 174
LDX_ABSOLUTE_Y == 190
LDY_IMMEDIATE == 160
LDY_ZERO_PAGE == 164
LDY_ZERO_PAGE_X == 180
LDY_ABSOLUTE == 172
LDY_ABSOLUTE_X == 188
STA_ZERO_PAGE == 133
STA_ZERO_PAGE_X == 149
STA_ABSOLUTE == 141
STA_ABSOLUTE_X == 157
STA_ABSOLUTE_Y == 153
STA_INDIRECT_X == 129
STA_INDIRECT_Y == 145
STX_ZERO_PAGE == 134
STX_ZERO_PAGE_Y == 150
STX_ABSOLUTE == 142
STY_ZERO_PAGE == 132
STY_ZERO_PAGE_X == 148
STY_ABSOLUTE == 140
JMP_ABSOLUTE == 76
JMP_INDIRECT == 108
JSR == 32
RTS == 96
TSX == 186
TXS == 154
TAX == 170
TAY == 168
TXA == 138
TYA == 152
INX == 232
INY == 200
DEX == 202
DEY == 136
INC_ZERO_PAGE == 230
INC_ZERO_PAGE_X == 246
INC_ABSOLUTE == 238
INC_ABSOLUTE_X == 254
DEC_ZERO_PAGE == 198
DEC_ZERO_PAGE_X == 214
DEC_ABSOLUTE == 206
DEC_ABSOLUTE_X == 222
PHA == 72
PHP == 8
PLA == 104
PLP == 40
AND_IMMEDIATE == 41
AND_ZERO_PAGE == 37
AND_ZERO_PAGE_X == 53
AND_ABSOLUTE == 45
AND_ABSOLUTE_X == 61
AND_ABSOLUTE_Y == 57
AND_INDIRECT_X == 33
AND_INDIRECT_Y == 49
EOR_IMMEDIATE == 73
EOR_ZERO_PAGE == 69
EOR_ZERO_PAGE_X == 85
EOR_ABSOLUTE == 77
EOR_ABSOLUTE_X == 93
EOR_ABSOLUTE_Y == 89
EOR_INDIRECT_X == 65
EOR_INDIRECT_Y == 81
ORA_IMMEDIATE == 9
ORA_ZERO_PAGE == 5
ORA_ZERO_PAGE_X == 21
ORA_ABSOLUTE == 13
ORA_ABSOLUTE_X == 29
ORA_ABSOLUTE_Y == 25
ORA_INDIRECT_X == 1
ORA_INDIRECT_Y == 17
BIT_ZERO_PAGE == 36
BIT_ABSOLUTE == 44
BEQ == 240
BNE == 208
BCS == 176
BCC == 144
BMI == 48
BPL == 16
BVC == 80
BVS == 112
CLC == 24
SEC == 56
CLD == 216
SED == 248
CLI == 88
SEI == 120
CLV == 184
ADC_IMMEDIATE == 105
ADC_ZERO_PAGE == 101
ADC_ZERO_PAGE_X == 117
ADC_ABSOLUTE == 109
ADC_ABSOLUTE_X == 125
ADC_ABSOLUTE_Y == 121
ADC_INDIRECT_X == 97
ADC_INDIRECT_Y == 113
SBC_IMMEDIATE == 233
SBC_ZERO_PAGE == 229
SBC_ZERO_PAGE_X == 245
SBC_ABSOLUTE == 237
SBC_ABSOLUTE_X == 253
SBC_ABSOLUTE_Y == 249
SBC_INDIRECT_X == 225
SBC_INDIRECT_Y == 241
CMP_IMMEDIATE == 201
CMP_ZERO_PAGE == 197
CMP_ZERO_PAGE_X == 213
CMP_ABSOLUTE == 205
CMP_ABSOLUTE_X == 221
CMP_ABSOLUTE_Y == 217
CMP_INDIRECT_X == 193
CMP_INDIRECT_Y == 209
CPX_IMMEDIATE == 224
CPX_ZERO_PAGE == 228
CPX_ABSOLUTE == 236
CPY_IMMEDIATE == 192
CPY_ZERO_PAGE == 196
CPY_ABSOLUTE == 204
ASL_ACCUMULATOR == 10
ASL_ZERO_PAGE == 6
ASL_ZERO_PAGE_X == 22
ASL_ABSOLUTE == 14
ASL_ABSOLUTE_X == 30
LSR_ACCUMULATOR == 74
LSR_ZERO_PAGE == 70
LSR_ZERO_PAGE_X == 86
LSR_ABSOLUTE == 78
LSR_ABSOLUTE_X == 94
ROL_ACCUMULATOR == 42
ROL_ZERO_PAGE == 38
ROL_ZERO_PAGE_X == 54
ROL_ABSOLUTE == 46
ROL_ABSOLUTE_X == 62
ROR_ACCUMULATOR == 106
ROR_ZERO_PAGE == 102
ROR_ZERO_PAGE_X == 118
ROR_ABSOLUTE == 110
ROR_ABSOLUTE_X == 126
BRK == 0
RTI == 64
(***************************************************************************)
(* cpu.rs                                                                  *)
(***************************************************************************)
CARRY_FLAG == 1
ZERO_FLAG == 2
IRQ_DISABLE_FLAG == 4
DEC_MODE_FLAG == 8
BREAK_FLAG == 16
OVERFLOW_FLAG == 64
NEGATIVE_FLAG == 128

NMI_VECTOR == 65530
INTERRUPT_VECTOR == 65534
RESET_VECTOR == 65532

SP_START_POS == 255

\* A read of a vector (in ROM) or of the stack page (0x0100..0x0200) never reaches the
\* random source: these reads are given the draw 0.

\* a reset that leaves the stack pointer alone
reset_keeps_sp(s) ==
    [s EXCEPT !.pc = Map_read_word(s, RESET_VECTOR, 0),
              !.a = 0, !.x = 0, !.y = 0,
              !.flags = 52]

reset(s) ==
    [s EXCEPT !.pc = Map_read_word(s, RESET_VECTOR, 0),
              !.sp = SP_START_POS,
              !.a = 0, !.x = 0, !.y = 0,
              !.flags = 52]

set_flag_if(s, cond, flag) ==
    [s EXCEPT !.flags = IF cond THEN Or(@, flag) ELSE And(@, Not8(flag))]

get_flag(s, flag) == And(s.flags, flag) # 0

\* a fetch that leaves pc where it is
pc_inc_stuck(s, n) == s

pc_inc(s, n) == [s EXCEPT !.pc = U16(@ + n)]

\* the u16 that fetch_word returns; it leaves pc advanced by 2
fetch_word_val(s, rnd) ==
    Or(Map_read_byte(s, s.pc, rnd), Map_read_byte(s, U16(s.pc + 1), rnd) * 256)

fetch_word(s) == pc_inc(pc_inc(s, 1), 1)

update_flags_registers(s, reg) ==
    set_flag_if(set_flag_if(s, reg = 0, ZERO_FLAG),
                And(reg, NEGATIVE_FLAG) # 0, NEGATIVE_FLAG)

\* the address get_indirect_address_x / _y return; both leave pc advanced by 1
get_indirect_address_x(s, rf, rd) ==
    Map_read_word(s, U8(Map_read_byte(s, s.pc, rf) + s.x), rd)

get_indirect_address_y(s, rf, rd) ==
    U16(Map_read_word(s, Map_read_byte(s, s.pc, rf), rd) + s.y)

get_sp_addr(s) == Or(256, s.sp)

\* a push that writes at the stack pointer and then decrements it
push_byte_then_decrement(s, value) ==
    [Map_write_byte(s, value, get_sp_addr(s)) EXCEPT !.sp = U8(@ - 1)]

push_byte(s, value) ==
    LET t == [s EXCEPT !.sp = U8(@ - 1)] IN Map_write_byte(t, value, get_sp_addr(t))

\* a push that stores the high byte of the word first
push_word_high_first(s, value) ==
    LET t == [s EXCEPT !.sp = U8(@ - 2)] IN
    Map_write_word(t, U16(value * 256) + Shr(value, 8), get_sp_addr(t))

push_word(s, value) ==
    LET t == [s EXCEPT !.sp = U8(@ - 2)] IN Map_write_word(t, value, get_sp_addr(t))

pop_byte_val(s) == Map_read_byte(s, get_sp_addr(s), 0)
pop_byte(s) == [s EXCEPT !.sp = U8(@ + 1)]

pop_word_val(s) == Map_read_word(s, get_sp_addr(s), 0)
pop_word(s) == [s EXCEPT !.sp = U8(@ + 2)]

\* an addition that leaves the carry-in out of the sum
adc_without_carry_in(s, op) ==
    LET sign_eq == And(Xor(s.a, op), NEGATIVE_FLAG) = 0
        sum == op + s.a
        res == U8(sum)
        t == set_flag_if(update_flags_registers([s EXCEPT !.a = res], res),
                         sum > 255, CARRY_FLAG)
    IN  set_flag_if(t, sign_eq /\ And(Xor(res, op), NEGATIVE_FLAG) # 0, OVERFLOW_FLAG)

adc(s, op) ==
    LET sign_eq == And(Xor(s.a, op), NEGATIVE_FLAG) = 0
        sum == op + s.a + (IF get_flag(s, CARRY_FLAG) THEN 1 ELSE 0)
        res == U8(sum)
        t == set_flag_if(update_flags_registers([s EXCEPT !.a = res], res),
                         sum > 255, CARRY_FLAG)
    IN  set_flag_if(t, sign_eq /\ And(Xor(res, op), NEGATIVE_FLAG) # 0, OVERFLOW_FLAG)

\* a subtraction in two's complement: the operand is negated, not complemented
sbc_negated(s, op) == adc(s, U8(256 - op))

sbc(s, op) == adc(s, Not8(op))

\* asl, lsr, rol, ror: [s |-> the CPU with its flags updated, result |-> the u8 returned]
asl(s, op) ==
    LET result == Shr(op, 1) IN
    [s |-> update_flags_registers(
               set_flag_if(s, And(op, NEGATIVE_FLAG) # 0, CARRY_FLAG), result),
     result |-> result]

lsr(s, op) ==
    LET result == Shr(op, 1) IN
    [s |-> update_flags_registers(
               set_flag_if(s, And(op, CARRY_FLAG) # 0, CARRY_FLAG), result),
     result |-> result]

\* a rotate to the left that takes the old Carry into bit 7
rol_carry_into_bit_7(s, op) ==
    LET carry == U8((IF get_flag(s, CARRY_FLAG) THEN 1 ELSE 0) * 128)
        result == Or(And(U8(op * 2), 127), carry) IN
    [s |-> update_flags_registers(
               set_flag_if(s, And(op, NEGATIVE_FLAG) # 0, CARRY_FLAG), result),
     result |-> result]

rol(s, op) ==
    LET carry == IF get_flag(s, CARRY_FLAG) THEN 1 ELSE 0
        result == Or(U8(op * 2), carry) IN
    [s |-> update_flags_registers(
               set_flag_if(s, And(op, NEGATIVE_FLAG) # 0, CARRY_FLAG), result),
     result |-> result]

ror(s, op) ==
    LET carry == U8((IF get_flag(s, CARRY_FLAG) THEN 1 ELSE 0) * 128)
        result == Or(Shr(op, 1), carry) IN
    [s |-> update_flags_registers(
               set_flag_if(s, And(op, CARRY_FLAG) # 0, CARRY_FLAG), result),
     result |-> result]

\* a compare of which the Carry says greater, not greater or equal
cmp_strict(s, reg, op) ==
    set_flag_if(update_flags_registers(s, U8(reg - op)), reg > op, CARRY_FLAG)

cmp(s, reg, op) ==
    set_flag_if(update_flags_registers(s, U8(reg - op)), reg >= op, CARRY_FLAG)

push_flags(s) == push_byte(s, Or(s.flags, 24))

\* a pop of the flags that keeps bits 3 and 4 of the stacked byte
pop_flags_raw(s) == [pop_byte(s) EXCEPT !.flags = pop_byte_val(s)]

pop_flags(s) == [pop_byte(s) EXCEPT !.flags = And(pop_byte_val(s), 231)]

\* an interrupt request that leaves IRQ-disable as it found it
interrupt_request_leaves_mask(s) ==
    IF ~get_flag(s, IRQ_DISABLE_FLAG)
    THEN LET t == push_flags(push_word(s, s.pc)) IN
         [t EXCEPT !.pc = Map_read_word(t, INTERRUPT_VECTOR, 0)]
    ELSE s

\* an interrupt request that is delivered whatever IRQ-disable is
interrupt_request_unmasked(s) ==
    LET t == push_flags(push_word(s, s.pc)) IN
    [t EXCEPT !.pc = Map_read_word(t, INTERRUPT_VECTOR, 0),
              !.flags = Or(@, IRQ_DISABLE_FLAG)]

interrupt_request(s) ==
    IF ~get_flag(s, IRQ_DISABLE_FLAG)
    THEN LET t == push_flags(push_word(s, s.pc)) IN
         [t EXCEPT !.pc = Map_read_word(t, INTERRUPT_VECTOR, 0),
                   !.flags = Or(@, IRQ_DISABLE_FLAG)]
    ELSE s

\* a non-maskable interrupt that sets IRQ-disable as interrupt_request does
non_maskable_interrupt_sets_mask(s) ==
    LET t == push_flags(push_word(s, s.pc)) IN
    [t EXCEPT !.pc = Map_read_word(t, NMI_VECTOR, 0),
              !.flags = Or(@, IRQ_DISABLE_FLAG)]

non_maskable_interrupt(s) ==
    LET t == push_flags(push_word(s, s.pc)) IN
    [t EXCEPT !.pc = Map_read_word(t, NMI_VECTOR, 0)]

\* a load over a bus that raises the dirty signal on a read
ld_a_sets_dirty(s, value) ==
    update_flags_registers([s EXCEPT !.a = value, !.fbuf_changed = TRUE], value)

\* the arms of tick that share a body, by the lines of their first occurrence
ld_a(s, value) == update_flags_registers([s EXCEPT !.a = value], value)
ld_x(s, value) == update_flags_registers([s EXCEPT !.x = value], value)
ld_y(s, value) == update_flags_registers([s EXCEPT !.y = value], value)

inc_reg(s, result) == set_flag_if(update_flags_registers(s, U8(result)), result > 255, CARRY_FLAG)
dec_reg(s, result) == set_flag_if(update_flags_registers(s, U8(result)), result < 0, CARRY_FLAG)

inc_mem(s, addr, rnd) ==
    LET value == Map_read_byte(s, addr, rnd) + 1 IN
    set_flag_if(update_flags_registers(Map_write_byte(s, U8(value), addr), U8(value)),
                value > 255, CARRY_FLAG)

\* a decrement of memory that leaves the Carry to the 8-bit result
dec_mem_carry_of_result(s, addr, rnd) ==
    LET value == Map_read_byte(s, addr, rnd) - 1 IN
    set_flag_if(update_flags_registers(Map_write_byte(s, U8(value), addr), U8(value)),
                U8(value) < 0, CARRY_FLAG)

dec_mem(s, addr, rnd) ==
    LET value == Map_read_byte(s, addr, rnd) - 1 IN
    set_flag_if(update_flags_registers(Map_write_byte(s, U8(value), addr), U8(value)),
                value < 0, CARRY_FLAG)

\* a BIT that takes Overflow and Negative from A & operand
bit_of_masked(s, value) ==
    set_flag_if(
        set_flag_if(
            set_flag_if(s, And(s.a, value) = 0, ZERO_FLAG),
            And(And(s.a, value), OVERFLOW_FLAG) # 0, OVERFLOW_FLAG),
        And(And(s.a, value), NEGATIVE_FLAG) # 0, NEGATIVE_FLAG)

bit(s, value) ==
    set_flag_if(
        set_flag_if(
            set_flag_if(s, And(s.a, value) = 0, ZERO_FLAG),
            And(value, OVERFLOW_FLAG) # 0, OVERFLOW_FLAG),
        And(value, NEGATIVE_FLAG) # 0, NEGATIVE_FLAG)

branch_unsigned(s, taken, operand) ==
    IF taken THEN [s EXCEPT !.pc = U16(s.pc + 1 + operand)]
    ELSE pc_inc(s, 1)

\* s.pc is at the operand byte; operand is read only when the branch is taken
branch(s, taken, operand) ==
    IF taken THEN [s EXCEPT !.pc = U16(s.pc + 1 + I8(operand))]
    ELSE pc_inc(s, 1)

shift_a(r) == [r.s EXCEPT !.a = r.result]
shift_mem(r, addr) == Map_write_byte(r.s, r.result, addr)

\* a BRK that leaves IRQ-disable as it was
brk_leaves_mask(s) ==
    IF ~get_flag(s, IRQ_DISABLE_FLAG)
    THEN LET t == push_flags(push_word(s, U16(s.pc + 1))) IN
         [t EXCEPT !.pc = Map_read_word(t, INTERRUPT_VECTOR, 0),
                   !.flags = Or(@, BREAK_FLAG)]
    ELSE s

\* a BRK that pushes the address of the byte after it
brk_pushes_next(s) ==
    IF ~get_flag(s, IRQ_DISABLE_FLAG)
    THEN LET t == push_flags(push_word(s, s.pc)) IN
         [t EXCEPT !.pc = Map_read_word(t, INTERRUPT_VECTOR, 0),
                   !.flags = Or(@, Or(IRQ_DISABLE_FLAG, BREAK_FLAG))]
    ELSE s

brk(s) ==
    IF ~get_flag(s, IRQ_DISABLE_FLAG)
    THEN LET t == push_flags(push_word(s, U16(s.pc + 1))) IN
         [t EXCEPT !.pc = Map_read_word(t, INTERRUPT_VECTOR, 0),
                   !.flags = Or(@, Or(IRQ_DISABLE_FLAG, BREAK_FLAG))]
    ELSE s

\* an RTI that pops pc before the flags
rti_pc_first(s) ==
    LET t == pop_word(s) IN [pop_flags(t) EXCEPT !.pc = pop_word_val(s)]

rti(s) ==
    LET t == pop_flags(s) IN [pop_word(t) EXCEPT !.pc = pop_word_val(t)]

(***************************************************************************)
(* CPU::tick.  rf is the draw of the random source for the reads of the    *)
(* instruction stream (the opcode and its operand bytes sit at consecutive *)
(* addresses, so at most one of them is register 9), rd the draw for the   *)
(* one read of the operand or pointer the instruction addresses.           *)
(***************************************************************************)
tick(s, rf, rd) ==
    LET instruction == Map_read_byte(s, s.pc, rf)
        t == pc_inc(s, 1)                      \* after the opcode fetch
        b == Map_read_byte(t, t.pc, rf)        \* read_byte(self.pc)
        u == pc_inc(t, 1)                      \* after a one-byte operand
        w == fetch_word_val(t, rf)
        v == fetch_word(t)                     \* after fetch_word
        R(addr) == Map_read_byte(t, addr, rd)
        zpx8 == U8(b + t.x)                    \* (read_byte(pc) + x) as u16
        zpx == b + t.x                         \* read_byte(pc) as u16 + x as u16
        zpy == b + t.y
        absx == U16(w + t.x)
        absy == U16(w + t.y)
        indx == get_indirect_address_x(t, rf, rd)
        indy == get_indirect_address_y(t, rf, rd)
    IN
    CASE instruction = LDA_IMMEDIATE -> ld_a(u, b)
      [] instruction = LDA_ZERO_PAGE -> ld_a(u, R(b))
      [] instruction = LDA_ZERO_PAGE_X -> ld_a(u, R(zpx8))
      [] instruction = LDA_ABSOLUTE -> ld_a(v, R(w))
      [] instruction = LDA_ABSOLUTE_X -> ld_a(v, R(absx))
      [] instruction = LDA_ABSOLUTE_Y -> ld_a(v, R(absy))
      [] instruction = LDA_INDIRECT_X -> ld_a(u, R(indx))
      [] instruction = LDA_INDIRECT_Y -> ld_a(u, R(indy))

      [] instruction = LDX_IMMEDIATE -> [u EXCEPT !.x = b]
      [] instruction = LDX_ZERO_PAGE -> ld_x(u, R(b))
      [] instruction = LDX_ZERO_PAGE_Y -> ld_x(u, R(zpy))
      [] instruction = LDX_ABSOLUTE -> ld_x(v, R(w))
      [] instruction = LDX_ABSOLUTE_Y -> ld_x(v, R(absy))

      [] instruction = LDY_IMMEDIATE -> [u EXCEPT !.y = b]
      [] instruction = LDY_ZERO_PAGE -> ld_y(u, R(b))
      [] instruction = LDY_ZERO_PAGE_X -> ld_y(u, R(zpy))
      [] instruction = LDY_ABSOLUTE -> ld_y(v, R(w))
      [] instruction = LDY_ABSOLUTE_X -> ld_y(v, R(absx))

      [] instruction = STA_ZERO_PAGE -> pc_inc(Map_write_byte(t, t.a, b), 1)
      [] instruction = STA_ZERO_PAGE_X -> pc_inc(Map_write_byte(t, t.a, zpx), 1)
      [] instruction = STA_ABSOLUTE -> Map_write_byte(v, v.a, w)
      [] instruction = STA_ABSOLUTE_X -> Map_write_byte(v, v.a, absx)
      [] instruction = STA_ABSOLUTE_Y -> Map_write_byte(v, v.a, absy)
      [] instruction = STA_INDIRECT_X -> Map_write_byte(u, u.a, indx)
      [] instruction = STA_INDIRECT_Y -> Map_write_byte(u, u.a, indy)

      [] instruction = STX_ZERO_PAGE -> pc_inc(Map_write_byte(t, t.x, b), 1)
      [] instruction = STX_ZERO_PAGE_Y -> pc_inc(Map_write_byte(t, t.x, zpy), 1)
      [] instruction = STX_ABSOLUTE -> Map_write_byte(v, v.x, w)

      [] instruction = STY_ZERO_PAGE -> pc_inc(Map_write_byte(t, t.y, b), 1)
      [] instruction = STY_ZERO_PAGE_X -> pc_inc(Map_write_byte(t, t.y, zpx), 1)
      [] instruction = STY_ABSOLUTE -> Map_write_byte(v, v.y, w)

      [] instruction = JMP_ABSOLUTE -> [v EXCEPT !.pc = w]
      [] instruction = JMP_INDIRECT -> [v EXCEPT !.pc = Map_read_word(v, w, rd)]

      [] instruction = JSR -> [push_word(v, v.pc) EXCEPT !.pc = w]
      [] instruction = RTS -> [pop_word(t) EXCEPT !.pc = pop_word_val(t)]

      [] instruction = TSX -> ld_x(t, t.sp)
      [] instruction = TXS -> [t EXCEPT !.sp = t.x]
      [] instruction = TAX -> ld_x(t, t.a)
      [] instruction = TAY -> ld_y(t, t.a)
      [] instruction = TXA -> ld_a(t, t.x)
      [] instruction = TYA -> ld_a(t, t.y)

      [] instruction = INX -> inc_reg([t EXCEPT !.x = U8(t.x + 1)], t.x + 1)
      [] instruction = INY -> inc_reg([t EXCEPT !.y = U8(t.y + 1)], t.y + 1)
      [] instruction = DEX -> dec_reg([t EXCEPT !.x = U8(t.x - 1)], t.x - 1)
      [] instruction = DEY -> dec_reg([t EXCEPT !.y = U8(t.y - 1)], t.y - 1)

      [] instruction = INC_ZERO_PAGE -> inc_mem(u, b, rd)
      [] instruction = INC_ZERO_PAGE_X -> inc_mem(u, zpx, rd)
      [] instruction = INC_ABSOLUTE -> inc_mem(v, w, rd)
      [] instruction = INC_ABSOLUTE_X -> inc_mem(v, absx, rd)
      [] instruction = DEC_ZERO_PAGE -> dec_mem(u, b, rd)
      [] instruction = DEC_ZERO_PAGE_X -> dec_mem(u, zpx, rd)
      [] instruction = DEC_ABSOLUTE -> dec_mem(v, w, rd)
      [] instruction = DEC_ABSOLUTE_X -> dec_mem(v, absx, rd)

      [] instruction = PHA -> push_byte(t, t.a)
      [] instruction = PHP -> push_flags(t)
      [] instruction = PLA -> [pop_byte(t) EXCEPT !.a = pop_byte_val(t)]
      [] instruction = PLP -> pop_flags(t)

      [] instruction = AND_IMMEDIATE -> ld_a(u, And(t.a, b))
      [] instruction = AND_ZERO_PAGE -> ld_a(u, And(t.a, R(b)))
      [] instruction = AND_ZERO_PAGE_X -> ld_a(u, And(t.a, R(zpx)))
      [] instruction = AND_ABSOLUTE -> ld_a(v, And(t.a, R(w)))
      [] instruction = AND_ABSOLUTE_X -> ld_a(v, And(t.a, R(absx)))
      [] instruction = AND_ABSOLUTE_Y -> ld_a(v, And(t.a, R(absy)))
      [] instruction = AND_INDIRECT_X -> ld_a(u, And(t.a, R(indx)))
      [] instruction = AND_INDIRECT_Y -> ld_a(u, And(t.a, R(indy)))

      [] instruction = ORA_IMMEDIATE -> ld_a(u, Or(t.a, b))
      [] instruction = ORA_ZERO_PAGE -> ld_a(u, Or(t.a, R(b)))
      [] instruction = ORA_ZERO_PAGE_X -> ld_a(u, Or(t.a, R(zpx)))
      [] instruction = ORA_ABSOLUTE -> ld_a(v, Or(t.a, R(w)))
      [] instruction = ORA_ABSOLUTE_X -> ld_a(v, Or(t.a, R(absx)))
      [] instruction = ORA_ABSOLUTE_Y -> ld_a(v, Or(t.a, R(absy)))
      [] instruction = ORA_INDIRECT_X -> ld_a(u, Or(t.a, R(indx)))
      [] instruction = ORA_INDIRECT_Y -> ld_a(u, Or(t.a, R(indy)))

      [] instruction = EOR_IMMEDIATE -> ld_a(u, Xor(t.a, b))
      [] instruction = EOR_ZERO_PAGE -> ld_a(u, Xor(t.a, R(b)))
      [] instruction = EOR_ZERO_PAGE_X -> ld_a(u, Xor(t.a, R(zpx)))
      [] instruction = EOR_ABSOLUTE -> ld_a(v, Xor(t.a, R(w)))
      [] instruction = EOR_ABSOLUTE_X -> ld_a(v, Xor(t.a, R(absx)))
      [] instruction = EOR_ABSOLUTE_Y -> ld_a(v, Xor(t.a, R(absy)))
      [] instruction = EOR_INDIRECT_X -> ld_a(u, Xor(t.a, R(indx)))
      [] instruction = EOR_INDIRECT_Y -> ld_a(u, Xor(t.a, R(indy)))

      [] instruction = BIT_ZERO_PAGE -> bit(u, R(b))
      [] instruction = BIT_ABSOLUTE -> bit(pc_inc(v, 1), R(w))

      [] instruction = BEQ -> branch(t, get_flag(t, ZERO_FLAG), b)
      [] instruction = BNE -> branch(t, ~get_flag(t, ZERO_FLAG), b)
      [] instruction = BCS -> branch(t, get_flag(t, CARRY_FLAG), b)
      [] instruction = BCC -> branch(t, ~get_flag(t, CARRY_FLAG), b)
      [] instruction = BMI -> branch(t, get_flag(t, NEGATIVE_FLAG), b)
      [] instruction = BPL -> branch(t, ~get_flag(t, NEGATIVE_FLAG), b)
      [] instruction = BVS -> branch(t, get_flag(t, OVERFLOW_FLAG), b)
      [] instruction = BVC -> branch(t, ~get_flag(t, OVERFLOW_FLAG), b)

      [] instruction = CLC -> [t EXCEPT !.flags = And(@, Not8(CARRY_FLAG))]
      [] instruction = SEC -> [t EXCEPT !.flags = Or(@, CARRY_FLAG)]
      [] instruction = CLD -> [t EXCEPT !.flags = And(@, Not8(DEC_MODE_FLAG))]
      [] instruction = SED -> [t EXCEPT !.flags = Or(@, DEC_MODE_FLAG)]
      [] instruction = CLI -> [t EXCEPT !.flags = And(@, Not8(IRQ_DISABLE_FLAG))]
      [] instruction = SEI -> [t EXCEPT !.flags = Or(@, IRQ_DISABLE_FLAG)]
      [] instruction = CLV -> [t EXCEPT !.flags = And(@, Not8(OVERFLOW_FLAG))]

      [] instruction = ADC_IMMEDIATE -> pc_inc(adc(t, b), 1)
      [] instruction = ADC_ZERO_PAGE -> pc_inc(adc(t, R(b)), 1)
      [] instruction = ADC_ZERO_PAGE_X -> pc_inc(adc(t, R(zpx)), 1)
      [] instruction = ADC_ABSOLUTE -> adc(v, R(w))
      [] instruction = ADC_ABSOLUTE_X -> adc(v, R(absx))
      [] instruction = ADC_ABSOLUTE_Y -> adc(v, R(absy))
      [] instruction = ADC_INDIRECT_X -> adc(u, R(indx))
      [] instruction = ADC_INDIRECT_Y -> adc(u, R(indy))

      [] instruction = SBC_IMMEDIATE -> pc_inc(sbc(t, b), 1)
      [] instruction = SBC_ZERO_PAGE -> pc_inc(sbc(t, R(b)), 1)
      [] instruction = SBC_ZERO_PAGE_X -> pc_inc(sbc(t, R(zpx)), 1)
      [] instruction = SBC_ABSOLUTE -> sbc(v, R(w))
      [] instruction = SBC_ABSOLUTE_X -> sbc(v, R(absx))
      [] instruction = SBC_ABSOLUTE_Y -> sbc(v, R(absy))
      [] instruction = SBC_INDIRECT_X -> sbc(u, R(indx))
      [] instruction = SBC_INDIRECT_Y -> sbc(u, R(indy))

      [] instruction = CMP_IMMEDIATE -> pc_inc(cmp(t, t.a, b), 1)
      [] instruction = CMP_ZERO_PAGE -> pc_inc(cmp(t, t.a, R(b)), 1)
      [] instruction = CMP_ZERO_PAGE_X -> pc_inc(cmp(t, t.a, R(zpx)), 1)
      [] instruction = CMP_ABSOLUTE -> cmp(v, v.a, R(w))
      [] instruction = CMP_ABSOLUTE_X -> cmp(v, v.a, R(absx))
      [] instruction = CMP_ABSOLUTE_Y -> cmp(v, v.a, R(absy))
      [] instruction = CMP_INDIRECT_X -> cmp(u, u.a, R(indx))
      [] instruction = CMP_INDIRECT_Y -> cmp(u, u.a, R(indy))

      [] instruction = CPX_IMMEDIATE -> pc_inc(cmp(t, t.x, b), 1)
      [] instruction = CPX_ZERO_PAGE -> pc_inc(cmp(t, t.x, R(b)), 1)
      [] instruction = CPX_ABSOLUTE -> cmp(v, v.x, R(w))

      [] instruction = CPY_IMMEDIATE -> pc_inc(cmp(t, t.y, b), 1)
      [] instruction = CPY_ZERO_PAGE -> pc_inc(cmp(t, t.y, R(b)), 1)
      [] instruction = CPY_ABSOLUTE -> cmp(v, v.y, R(w))

      [] instruction = ASL_ACCUMULATOR -> shift_a(asl(t, t.a))
      [] instruction = ASL_ZERO_PAGE -> shift_mem(asl(u, R(b)), b)
      [] instruction = ASL_ZERO_PAGE_X -> shift_mem(asl(u, R(zpx)), zpx)
      [] instruction = ASL_ABSOLUTE -> shift_mem(asl(v, R(w)), w)
      [] instruction = ASL_ABSOLUTE_X -> shift_mem(asl(v, R(absx)), absx)

      [] instruction = LSR_ACCUMULATOR -> shift_a(lsr(t, t.a))
      [] instruction = LSR_ZERO_PAGE -> shift_mem(lsr(u, R(b)), b)
      [] instruction = LSR_ZERO_PAGE_X -> shift_mem(lsr(u, R(zpx)), zpx)
      [] instruction = LSR_ABSOLUTE -> shift_mem(lsr(v, R(w)), w)
      [] instruction = LSR_ABSOLUTE_X -> shift_mem(lsr(v, R(absx)), absx)

      [] instruction = ROL_ACCUMULATOR -> shift_a(rol(t, t.a))
      [] instruction = ROL_ZERO_PAGE -> shift_mem(rol(u, R(b)), b)
      [] instruction = ROL_ZERO_PAGE_X -> shift_mem(rol(u, R(zpx)), zpx)
      [] instruction = ROL_ABSOLUTE -> shift_mem(rol(v, R(w)), w)
      [] instruction = ROL_ABSOLUTE_X -> shift_mem(rol(v, R(absx)), absx)

      [] instruction = ROR_ACCUMULATOR -> shift_a(ror(t, t.a))
      [] instruction = ROR_ZERO_PAGE -> shift_mem(ror(u, R(b)), b)
      [] instruction = ROR_ZERO_PAGE_X -> shift_mem(ror(u, R(zpx)), zpx)
      [] instruction = ROR_ABSOLUTE -> shift_mem(ror(v, R(w)), w)
      [] instruction = ROR_ABSOLUTE_X -> shift_mem(ror(v, R(absx)), absx)

      [] instruction = BRK -> brk(t)
      [] instruction = RTI -> rti(t)

      [] instruction = NOP -> t
      [] OTHER -> t

(***************************************************************************)
(* The running machine.                                                    *)
(***************************************************************************)
Machine ==
    [pc |-> pc, sp |-> sp, a |-> a, x |-> x, y |-> y, flags |-> flags,
     fbuf_changed |-> fbuf_changed, rom |-> rom, ram |-> ram,
     port_a |-> port_a, port_b |-> port_b, keyb |-> keyb,
     mouse_x |-> mouse_x, mouse_y |-> mouse_y, rom_ptr |-> rom_ptr,
     cart_rom |-> cart_rom, interrupt_id |-> interrupt_id,
     aborted |-> aborted]

\* a panic ends the process: nothing of its state is observed afterwards
Assign(s) ==
    IF s.aborted
    THEN aborted' = TRUE /\ UNCHANGED <<cpu_vars, map_vars, adapter_vars>>
    ELSE /\ pc' = s.pc /\ sp' = s.sp /\ a' = s.a /\ x' = s.x /\ y' = s.y
         /\ flags' = s.flags
         /\ fbuf_changed' = s.fbuf_changed /\ rom' = s.rom /\ ram' = s.ram
         /\ port_a' = s.port_a /\ port_b' = s.port_b /\ keyb' = s.keyb
         /\ mouse_x' = s.mouse_x /\ mouse_y' = s.mouse_y /\ rom_ptr' = s.rom_ptr
         /\ cart_rom' = s.cart_rom /\ interrupt_id' = s.interrupt_id
         /\ aborted' = FALSE

\* CPU::new, Map::new and Adapter::new, for a ROM file and a cartridge file
Constructed(rom_file, cartridge) ==
    [pc |-> 0, sp |-> 0, a |-> 0, x |-> 0, y |-> 0, flags |-> 0,
     fbuf_changed |-> TRUE, rom |-> rom_file, ram |-> <<>>,
     port_a |-> 0, port_b |-> 0, keyb |-> 0, mouse_x |-> 0, mouse_y |-> 0,
     rom_ptr |-> 0, cart_rom |-> cartridge, interrupt_id |-> 0,
     aborted |-> FALSE]

\* the machine starts as s, after the operations h
Start(s, h) ==
    /\ pc = s.pc /\ sp = s.sp /\ a = s.a /\ x = s.x /\ y = s.y /\ flags = s.flags
    /\ fbuf_changed = s.fbuf_changed /\ rom = s.rom /\ ram = s.ram
    /\ port_a = s.port_a /\ port_b = s.port_b /\ keyb = s.keyb
    /\ mouse_x = s.mouse_x /\ mouse_y = s.mouse_y /\ rom_ptr = s.rom_ptr
    /\ cart_rom = s.cart_rom /\ interrupt_id = s.interrupt_id
    /\ aborted = s.aborted
    /\ hist = h

(***************************************************************************)
(* Bounds.                                                                 *)
(***************************************************************************)
MaxSteps == 3      \* operations in a run
MaxWrites == 1     \* bus writes from outside the CPU in a run
MaxRnd == 1        \* the random source yields 0 .. MaxRnd - 1 and 254

\* a random source that can also yield 255
RndVals_inclusive == (0 .. (MaxRnd - 1)) \cup {255}

\* gen_range(0 .. 0xff): the upper end is excluded
RndVals == (0 .. (MaxRnd - 1)) \cup {254}

Did(i, name) == i \in DOMAIN hist /\ hist[i].op = name
NumWrites == Cardinality({i \in DOMAIN hist : hist[i].op \in {"write_byte", "write_word"}})
Record(name, arg) == hist' = Append(hist, [op |-> name, st |-> Machine, arg |-> arg])
CanStep == ~aborted /\ Len(hist) < MaxSteps

(***************************************************************************)
(* Operations.                                                             *)
(***************************************************************************)
Reset ==
    /\ CanStep
    /\ Assign(reset(Machine))
    /\ Record("reset", <<>>)

Tick ==
    /\ CanStep
    /\ \E rf \in RndVals, rd \in RndVals : Assign(tick(Machine, rf, rd))
    /\ Record("tick", <<>>)

InterruptRequest ==
    /\ CanStep
    /\ Assign(interrupt_request(Machine))
    /\ Record("interrupt_request", <<>>)

NonMaskableInterrupt ==
    /\ CanStep
    /\ Assign(non_maskable_interrupt(Machine))
    /\ Record("non_maskable_interrupt", <<>>)

\* Map::write_byte and Map::write_word called on the bus directly
BusAddrs == {511, 24575, 24576, 24584, 24591, 24592, 28688, 28689, 32766, 32767, 32768, 65535}
ByteVals == {165}
WordVals == {42330}

WriteByte ==
    /\ CanStep /\ NumWrites < MaxWrites
    /\ \E value \in ByteVals, address \in BusAddrs :
        /\ Assign(Map_write_byte(Machine, value, address))
        /\ Record("write_byte", <<value, address>>)

WriteWord ==
    /\ CanStep /\ NumWrites < MaxWrites
    /\ \E value \in WordVals, address \in BusAddrs :
        /\ Assign(Map_write_word(Machine, value, address))
        /\ Record("write_word", <<value, address>>)

Next ==
    \/ Reset \/ Tick \/ InterruptRequest \/ NonMaskableInterrupt
    \/ WriteByte \/ WriteWord

(***************************************************************************)
(* Files and machine states the runs start from.                           *)
(***************************************************************************)
\* ROM files, indexed from 0 (address - 0x8000); bytes not listed are 0.
\* RomA: reset -> 0x8000, NMI -> 0x9000, IRQ/BRK -> 0xA0F0.
\*   8000 LDA #5 / 8002 STA $6000 / 8005 CLI / 8006 STA $6010 / 8009 STA $8000
\*   800C PHP / 800D PLP / 9000 RTI / A0F0 RTI
RomA ==
    (0 :> 169) @@ (1 :> 5) @@ (2 :> 141) @@ (4 :> 96) @@ (5 :> 88)
    @@ (6 :> 141) @@ (7 :> 16) @@ (8 :> 96) @@ (9 :> 141) @@ (11 :> 128)
    @@ (12 :> 8) @@ (13 :> 40)
    @@ (4096 :> 64) @@ (8432 :> 64)
    @@ (32763 :> 144) @@ (32765 :> 128) @@ (32766 :> 240) @@ (32767 :> 160)

\* RomB: reset -> 0x8000, NMI -> 0x0280 (RAM), IRQ/BRK -> 0x8010.
\*   8000 CLI / 8001 BIT $0200 / 8004 JSR $8010 / 8010 PHA / 8011 RTI
RomB ==
    (0 :> 88) @@ (1 :> 44) @@ (3 :> 2) @@ (4 :> 32) @@ (5 :> 16) @@ (6 :> 128)
    @@ (16 :> 72) @@ (17 :> 64)
    @@ (32762 :> 128) @@ (32763 :> 2) @@ (32765 :> 128) @@ (32766 :> 16) @@ (32767 :> 128)

RomFiles == {RomA, RomB}

\* RAM contents: empty, and a RAM holding bytes in the zero page, the stack page,
\* under the register window, in the framebuffer and at the top of RAM, and the
\* program 0200 STA $6010 / 0203 STA $8000
RamB ==
    (0 :> 16) @@ (1 :> 96) @@ (128 :> 129) @@ (255 :> 127) @@ (256 :> 1)
    @@ (509 :> 171) @@ (510 :> 205) @@ (511 :> 239)
    @@ (512 :> 141) @@ (513 :> 16) @@ (514 :> 96) @@ (515 :> 141) @@ (517 :> 128)
    @@ (24576 :> 17) @@ (24592 :> 34) @@ (32767 :> 51)

RamStates == {<<>>, RamB}

\* cartridge files
CartFiles == {<<>>, (0 :> 77) @@ (66051 :> 78)}

AnyPC == {512, 32768, 65535}
AnySP == {255, 0, 1, 2}
AnyFlags == {0, 4, 52, 203, 255}
AnyReg == {0, 90}

\* a machine in the middle of a run
Running(p, s_p, f, r, rom_file, mem, cartridge, dirty) ==
    [Constructed(rom_file, cartridge) EXCEPT
        !.pc = p, !.sp = s_p, !.flags = f,
        !.a = r, !.x = U8(r + 1), !.y = U8(r + 2),
        !.ram = mem, !.fbuf_changed = dirty,
        !.port_a = r, !.port_b = U8(r + 3), !.keyb = U8(r + 4),
        !.mouse_x = U8(r + 5), !.mouse_y = U8(r + 6),
        !.rom_ptr = IF r = 0 THEN 0 ELSE 66051,
        !.interrupt_id = U8(r + 7)]

(***************************************************************************)
(* Specifications.                                                         *)
(***************************************************************************)
\* main: the machine is constructed, and reset before the window loop runs
Init ==
    \E rom_file \in RomFiles, cartridge \in CartFiles :
        LET s == Constructed(rom_file, cartridge) IN
        Start(reset(s), <<[op |-> "reset", st |-> s, arg |-> <<>>]>>)

Spec == Init /\ [][Next]_vars

\* every operation of the bus and the CPU, from a few states in the middle of a run
InitBus ==
    \E dirty \in BOOLEAN :
        Start(Running(512, 255, 0, 90, RomA, RamB, <<>>, dirty), <<>>)

SpecBus == InitBus /\ [][Next]_vars

\* the CPU's entry points other than tick, from any state
InitCpu ==
    \E p \in AnyPC, s_p \in AnySP, f \in AnyFlags, r \in AnyReg,
       rom_file \in RomFiles, mem \in RamStates, dirty \in BOOLEAN :
        Start(Running(p, s_p, f, r, rom_file, mem, <<>>, dirty), <<>>)

NextCpu == Reset \/ Tick \/ InterruptRequest \/ NonMaskableInterrupt

SpecCpu == InitCpu /\ [][NextCpu]_vars

\* one instruction, of every opcode byte, in front of the CPU in any state
InstrPC == {512, 65534}
OperandWords == {512, 128, 24576, 24584, 24585, 24592, 32767, 65535}
\* stack pointer, flags and register seed, every pair of values occurring together
InstrCpu == {<<255, 0, 1>>, <<255, 255, 255>>, <<1, 255, 1>>, <<1, 0, 255>>}

\* the machine s with the bytes of an instruction stored at address p and after it
PlaceByte(s, address, value) ==
    IF address >= 32768
    THEN [s EXCEPT !.rom = Store(@, And(address, 32767), value)]
    ELSE [s EXCEPT !.ram = Store(@, address, value)]

Place(s, p, opcode, operand) ==
    PlaceByte(PlaceByte(PlaceByte(s, p, opcode),
                        U16(p + 1), operand % 256),
              U16(p + 2), operand \div 256)

\* the machine s with the bytes of cells, pairs of an address and a value, stored
RECURSIVE Poke(_, _)
Poke(s, cells) ==
    IF cells = <<>> THEN s
    ELSE Poke(PlaceByte(s, cells[1][1], cells[1][2]), Tail(cells))

InitInstr ==
    \E p \in InstrPC, opcode \in 0 .. 255, operand \in OperandWords,
       c \in InstrCpu :
        Start(Place(Running(p, c[1], c[2], c[3], RomA, RamB, <<>>, FALSE),
                    p, opcode, operand), <<>>)

NextInstr == Tick

SpecInstr == InitInstr /\ [][NextInstr]_vars


\* PHP then PLP in front of the CPU, for every flags value and every stack pointer
FlagsAndSP ==
    ((0 .. 255) \X {255, 0, 1}) \cup ({0, 255, 36} \X (0 .. 255))

InitStack ==
    \E c \in FlagsAndSP, p \in {512} :
        Start(PlaceByte(PlaceByte(Running(p, c[2], c[1], 90, RomA, RamB, <<>>, FALSE),
                                  p, PHP), p + 1, PLP), <<>>)

SpecStack == InitStack /\ [][NextInstr]_vars

\* bus accesses alone, over the register window and the borders of the regions
IoAddrs == (24575 .. 24593) \cup {0, 511, 28688, 28689, 32766, 32767, 32768, 65535}
IoByteVals == {0, 90, 128, 255}
IoWordVals == {0, 255, 384, 42330, 65280, 65535}

IoWriteByte ==
    /\ CanStep /\ NumWrites < MaxWrites
    /\ \E value \in IoByteVals, address \in IoAddrs :
        /\ Assign(Map_write_byte(Machine, value, address))
        /\ Record("write_byte", <<value, address>>)

IoWriteWord ==
    /\ CanStep /\ NumWrites < MaxWrites
    /\ \E value \in IoWordVals, address \in IoAddrs :
        /\ Assign(Map_write_word(Machine, value, address))
        /\ Record("write_word", <<value, address>>)

InitIo ==
    \E r \in AnyReg, dirty \in BOOLEAN :
        Start(Running(512, 255, 0, r, RomA, RamB, (0 :> 77) @@ (66051 :> 78), dirty), <<>>)

NextIo == IoWriteByte \/ IoWriteWord

SpecIo == InitIo /\ [][NextIo]_vars

\* ADC #m, then CLC or SEC, then SBC #m in front of the CPU: every A with the
\* operands of AluSample and every operand with the A of AluSample, for each
\* value of the Carry and the Decimal flag
AluSample == {0, 1, 127, 128, 255}
AluPairs == ((0 .. 255) \X AluSample) \cup (AluSample \X (0 .. 255))
AluFlags == {0, 1, 8, 203}

InitAlu ==
    \E c \in AluPairs, f \in AluFlags, k \in {CLC, SEC} :
        LET s == [Running(512, 255, f, 90, RomA, RamB, <<>>, FALSE) EXCEPT !.a = c[1]]
            prog == <<ADC_IMMEDIATE, c[2], k, SBC_IMMEDIATE, c[2]>>
            P[n \in 0 .. 5] == IF n = 0 THEN s ELSE PlaceByte(P[n - 1], 511 + n, prog[n])
        IN  Start(P[5], <<>>)

SpecAlu == InitAlu /\ [][NextInstr]_vars

(***************************************************************************)
(* main.rs: the window handlers of Emu.  A handler writes the latches of   *)
(* the register bank directly and then calls interrupt_request().          *)
(***************************************************************************)
\* a handler that forwards nothing while IRQ-disable is set
on_key_down_when_enabled(s, scancode) ==
    IF get_flag(s, IRQ_DISABLE_FLAG) THEN s
    ELSE interrupt_request([s EXCEPT !.keyb = U8(scancode), !.interrupt_id = KEYDOWN])

\* scancode as u8
on_key_down(s, scancode) ==
    interrupt_request([s EXCEPT !.keyb = U8(scancode), !.interrupt_id = KEYDOWN])

on_key_up(s, scancode) ==
    interrupt_request([s EXCEPT !.keyb = U8(scancode), !.interrupt_id = KEYUP])

\* any button requests the interrupt; the left and the right one set the latch
on_mouse_button_down(s, button) ==
    interrupt_request(
        CASE button = "Left" -> [s EXCEPT !.interrupt_id = MOUSE_LCLICK]
          [] button = "Right" -> [s EXCEPT !.interrupt_id = MOUSE_RCLICK]
          [] OTHER -> s)

\* the loop of on_draw from tick number k on: b.s is the machine, b.changed the
\* local changed, b.ticked the machine as each tick so far left it, before the
\* host looked at the dirty flag.  A panic ends the loop.
RECURSIVE draw_ticks(_, _, _, _)
draw_ticks(b, k, ticks, draws) ==
    IF k > ticks \/ b.s.aborted THEN b
    ELSE CHOOSE c \in
             {draw_ticks([s |-> IF t.fbuf_changed /\ ~t.aborted
                               THEN [t EXCEPT !.fbuf_changed = FALSE] ELSE t,
                         changed |-> b.changed \/ t.fbuf_changed,
                         ticked |-> Append(b.ticked, t)],
                        k + 1, ticks, draws) :
                 t \in {tick(b.s, draws[k][1], draws[k][2])}} : TRUE

\* an on_draw that runs the renderer only when the frame counter forces it
on_draw_renders_when_forced(s, ticks, draws, forced) ==
    LET c == draw_ticks([s |-> s, changed |-> FALSE, ticked |-> <<>>], 1, ticks, draws)
        changed == forced /\ ~c.s.aborted
    IN  [s |-> IF changed THEN [c.s EXCEPT !.fbuf_changed = FALSE] ELSE c.s,
         rendered |-> changed,
         ticked |-> c.ticked]

\* Emu::on_draw for self.ticks ticks: the machine after it, whether ppu.tick()
\* ran, and the machine as each tick left it.  draws[k] are the two draws of the
\* random source for tick k; forced is
\* self.frame == self.update_each && self.update_each != 0xffff.  ppu.tick()
\* only reads the bus.
on_draw(s, ticks, draws, forced) ==
    LET c == draw_ticks([s |-> s, changed |-> FALSE, ticked |-> <<>>], 1, ticks, draws)
        changed == (c.changed \/ forced) /\ ~c.s.aborted
    IN  [s |-> IF changed THEN [c.s EXCEPT !.fbuf_changed = FALSE] ELSE c.s,
         rendered |-> changed,
         ticked |-> c.ticked]

OnKeyDown ==
    /\ CanStep
    /\ \E scancode \in {30, 300} :
        /\ Assign(on_key_down(Machine, scancode))
        /\ Record("on_key_down", <<scancode>>)

OnKeyUp ==
    /\ CanStep
    /\ \E scancode \in {30, 300} :
        /\ Assign(on_key_up(Machine, scancode))
        /\ Record("on_key_up", <<scancode>>)

OnMouseButtonDown ==
    /\ CanStep
    /\ \E button \in {"Left", "Right", "Middle"} :
        /\ Assign(on_mouse_button_down(Machine, button))
        /\ Record("on_mouse_button_down", <<button>>)

\* the command line gives self.ticks; the frame counter and update_each decide
\* forced
OnDraw ==
    /\ CanStep
    /\ \E ticks \in 0 .. 2, forced \in BOOLEAN :
       \E draws \in [1 .. ticks -> RndVals \X RndVals] :
       \E r \in {on_draw(Machine, ticks, draws, forced)} :
           /\ Assign(r.s)
           /\ Record("on_draw", <<ticks, forced, r.rendered, r.ticked>>)

\* the window loop over a machine in the middle of a run, with IRQ-disable clear
\* and set, the dirty flag clear and set: the program 0200 STA $6010 / 0203 STA $8000 or 0200 CLI /
\* 0201 STA $6010, and the interrupt handler A0F0 LDA $600F / A0F3 RTI
InitHost ==
    \E c \in {<<32, FALSE, FALSE>>, <<52, TRUE, FALSE>>, <<52, FALSE, TRUE>>,
               <<32, TRUE, TRUE>>} :
        Start(Poke(Running(512, 255, c[1], 90, RomA, RamB, <<>>, c[2]),
                   << <<41200, LDA_ABSOLUTE>>, <<41201, 15>>, <<41202, 96>>,
                      <<41203, RTI>> >>
                   \o IF c[3] THEN << <<512, CLI>>, <<513, STA_ABSOLUTE>>,
                                      <<514, 16>>, <<515, 96>> >>
                      ELSE <<>>), <<>>)

\* the events of the window between two draws, and the ticks of a draw
NextHost == OnKeyDown \/ OnKeyUp \/ OnMouseButtonDown \/ Tick

SpecHost == InitHost /\ [][NextHost]_vars

\* the draws of the window loop alone
SpecDraw == InitHost /\ [][OnDraw]_vars

(***************************************************************************)
(* Properties.                                                             *)
(***************************************************************************)
\* the machine after operation i of the run
After(i) == IF i < Len(hist) THEN hist[i + 1].st ELSE Machine

\* everything of the machine that is not a CPU register
Memory(s) ==
    [fbuf_changed |-> s.fbuf_changed, rom |-> s.rom, ram |-> s.ram,
     port_a |-> s.port_a, port_b |-> s.port_b, keyb |-> s.keyb,
     mouse_x |-> s.mouse_x, mouse_y |-> s.mouse_y, rom_ptr |-> s.rom_ptr,
     cart_rom |-> s.cart_rom, interrupt_id |-> s.interrupt_id]

\* C1: reset() from any state leaves flags = 0b00110100, SP = 0xFF, A = X = Y = 0,
\* PC = read_byte(0xFFFC) | read_byte(0xFFFD) << 8, changes no RAM, ROM or I/O
\* register, and a second reset() in a row changes nothing.
C1_ResetContract ==
    \A i \in DOMAIN hist :
        hist[i].op = "reset" =>
            LET p == hist[i].st
                q == After(i) IN
            /\ q.flags = 52 /\ q.sp = 255 /\ q.a = 0 /\ q.x = 0 /\ q.y = 0
            /\ q.pc = Map_read_byte(p, 65532, 0) + 256 * Map_read_byte(p, 65533, 0)
            /\ Memory(q) = Memory(p)
            /\ ~q.aborted
            /\ (Did(i + 1, "reset") => After(i + 1) = q)

C1_Witness ==
    /\ Did(1, "reset") /\ Did(2, "reset")
    /\ hist[1].st.flags = 203 /\ hist[1].st.sp = 1 /\ hist[1].st.a = 90
    /\ hist[1].st.ram # <<>>
    /\ pc = 32768

\* the opcodes of the table by addressing mode: no operand byte (implied and
\* accumulator), one operand byte, two operand bytes; and those that set pc
ImpliedOps ==
    {NOP, TSX, TXS, TAX, TAY, TXA, TYA, INX, INY, DEX, DEY, PHA, PHP, PLA, PLP, CLC,
     SEC, CLD, SED, CLI, SEI, CLV, ASL_ACCUMULATOR, LSR_ACCUMULATOR, ROL_ACCUMULATOR,
     ROR_ACCUMULATOR}

OneByteOps ==
    {LDA_IMMEDIATE, LDA_ZERO_PAGE, LDA_ZERO_PAGE_X, LDA_INDIRECT_X, LDA_INDIRECT_Y,
     LDX_IMMEDIATE, LDX_ZERO_PAGE, LDX_ZERO_PAGE_Y, LDY_IMMEDIATE, LDY_ZERO_PAGE,
     LDY_ZERO_PAGE_X, STA_ZERO_PAGE, STA_ZERO_PAGE_X, STA_INDIRECT_X, STA_INDIRECT_Y,
     STX_ZERO_PAGE, STX_ZERO_PAGE_Y, STY_ZERO_PAGE, STY_ZERO_PAGE_X, INC_ZERO_PAGE,
     INC_ZERO_PAGE_X, DEC_ZERO_PAGE, DEC_ZERO_PAGE_X, AND_IMMEDIATE, AND_ZERO_PAGE,
     AND_ZERO_PAGE_X, AND_INDIRECT_X, AND_INDIRECT_Y, EOR_IMMEDIATE, EOR_ZERO_PAGE,
     EOR_ZERO_PAGE_X, EOR_INDIRECT_X, EOR_INDIRECT_Y, ORA_IMMEDIATE, ORA_ZERO_PAGE,
     ORA_ZERO_PAGE_X, ORA_INDIRECT_X, ORA_INDIRECT_Y, BIT_ZERO_PAGE, ADC_IMMEDIATE,
     ADC_ZERO_PAGE, ADC_ZERO_PAGE_X, ADC_INDIRECT_X, ADC_INDIRECT_Y, SBC_IMMEDIATE,
     SBC_ZERO_PAGE, SBC_ZERO_PAGE_X, SBC_INDIRECT_X, SBC_INDIRECT_Y, CMP_IMMEDIATE,
     CMP_ZERO_PAGE, CMP_ZERO_PAGE_X, CMP_INDIRECT_X, CMP_INDIRECT_Y, CPX_IMMEDIATE,
     CPX_ZERO_PAGE, CPY_IMMEDIATE, CPY_ZERO_PAGE, ASL_ZERO_PAGE, ASL_ZERO_PAGE_X,
     LSR_ZERO_PAGE, LSR_ZERO_PAGE_X, ROL_ZERO_PAGE, ROL_ZERO_PAGE_X, ROR_ZERO_PAGE,
     ROR_ZERO_PAGE_X}

TwoByteOps ==
    {LDA_ABSOLUTE, LDA_ABSOLUTE_X, LDA_ABSOLUTE_Y, LDX_ABSOLUTE, LDX_ABSOLUTE_Y,
     LDY_ABSOLUTE, LDY_ABSOLUTE_X, STA_ABSOLUTE, STA_ABSOLUTE_X, STA_ABSOLUTE_Y,
     STX_ABSOLUTE, STY_ABSOLUTE, INC_ABSOLUTE, INC_ABSOLUTE_X, DEC_ABSOLUTE,
     DEC_ABSOLUTE_X, AND_ABSOLUTE, AND_ABSOLUTE_X, AND_ABSOLUTE_Y, EOR_ABSOLUTE,
     EOR_ABSOLUTE_X, EOR_ABSOLUTE_Y, ORA_ABSOLUTE, ORA_ABSOLUTE_X, ORA_ABSOLUTE_Y,
     BIT_ABSOLUTE, ADC_ABSOLUTE, ADC_ABSOLUTE_X, ADC_ABSOLUTE_Y, SBC_ABSOLUTE,
     SBC_ABSOLUTE_X, SBC_ABSOLUTE_Y, CMP_ABSOLUTE, CMP_ABSOLUTE_X, CMP_ABSOLUTE_Y,
     CPX_ABSOLUTE, CPY_ABSOLUTE, ASL_ABSOLUTE, ASL_ABSOLUTE_X, LSR_ABSOLUTE,
     LSR_ABSOLUTE_X, ROL_ABSOLUTE, ROL_ABSOLUTE_X, ROR_ABSOLUTE, ROR_ABSOLUTE_X}

ControlOps ==
    {JMP_ABSOLUTE, JMP_INDIRECT, JSR, RTS, BEQ, BNE, BCS, BCC, BMI, BPL, BVC, BVS,
     BRK, RTI}

operand_bytes(opcode) ==
    IF opcode \in ImpliedOps THEN 0 ELSE IF opcode \in OneByteOps THEN 1 ELSE 2

\* the opcode that tick number i of the run fetched
Fetched(i) == Map_read_byte(hist[i].st, hist[i].st.pc, 0)

\* tick number i of the run ran an opcode of ops to completion
Ran(i, ops) == Did(i, "tick") /\ Fetched(i) \in ops /\ ~After(i).aborted

\* C2: for every opcode of the table other than jumps, branches, JSR/RTS, BRK and
\* RTI, one tick() advances pc (mod 2^16) by exactly 1 + operand_bytes(mode), BIT
\* absolute included.
C2_PcAdvance ==
    \A i \in DOMAIN hist :
        Ran(i, ImpliedOps \cup OneByteOps \cup TwoByteOps) =>
            After(i).pc = U16(hist[i].st.pc + 1 + operand_bytes(Fetched(i)))

\* C2 without BIT absolute holds: it is the one opcode that tick() gets wrong
C2_PcAdvanceButBitAbsolute ==
    \A i \in DOMAIN hist :
        Ran(i, (ImpliedOps \cup OneByteOps \cup TwoByteOps) \ {BIT_ABSOLUTE}) =>
            After(i).pc = U16(hist[i].st.pc + 1 + operand_bytes(Fetched(i)))

\* BIT absolute advances pc by 4
C2_BitAbsoluteSkips ==
    \A i \in DOMAIN hist :
        Ran(i, {BIT_ABSOLUTE}) => After(i).pc = U16(hist[i].st.pc + 4)

\* the RAM addresses whose byte differs between two machines
Changed(p, q) ==
    {ad \in DOMAIN p.ram \cup DOMAIN q.ram : Load(p.ram, ad) # Load(q.ram, ad)}

\* everything of the machine but the CPU registers and the RAM
Devices(s) ==
    [fbuf_changed |-> s.fbuf_changed, rom |-> s.rom,
     port_a |-> s.port_a, port_b |-> s.port_b, keyb |-> s.keyb,
     mouse_x |-> s.mouse_x, mouse_y |-> s.mouse_y, rom_ptr |-> s.rom_ptr,
     cart_rom |-> s.cart_rom, interrupt_id |-> s.interrupt_id]

\* the little-endian word that the ROM holds at a vector
Vector(s, address) ==
    Load(s.rom, address - 32768) + 256 * Load(s.rom, address + 1 - 32768)

\* operation i of the run is an interrupt_request() that found IRQ-disable clear
Delivered(i) ==
    Did(i, "interrupt_request") /\ And(hist[i].st.flags, IRQ_DISABLE_FLAG) = 0

\* operation i of the run is an interrupt_request() that found IRQ-disable set
Dropped(i) ==
    Did(i, "interrupt_request") /\ And(hist[i].st.flags, IRQ_DISABLE_FLAG) # 0

\* C3 as stated: from SP = 0xFF with IRQ-disable clear, interrupt_request() stores
\* the pushed pc in 0x01FF (high byte) and 0x01FE (low byte) and the pushed flags in
\* 0x01FD, writes no other address, and sets pc to the word at 0xFFFE.
C3_IrqStackBytes ==
    \A i \in DOMAIN hist :
        (Delivered(i) /\ hist[i].st.sp = 255) =>
            LET p == hist[i].st
                q == After(i) IN
            /\ Load(q.ram, 511) = p.pc \div 256
            /\ Load(q.ram, 510) = p.pc % 256
            /\ Load(q.ram, 509) = Or(p.flags, 24)
            /\ Changed(p, q) \subseteq {509, 510, 511}
            /\ q.pc = Vector(p, INTERRUPT_VECTOR)

\* C3, amended: from SP = 0xFF with IRQ-disable clear, interrupt_request() stores the
\* pushed pc in 0x01FE (high byte) and 0x01FD (low byte) and flags | 0x18 in 0x01FC,
\* writes no other address (0x01FF keeps its byte), leaves SP = 0xFC and sets pc to
\* the word at 0xFFFE.
C3_IrqStackBytesBelowTop ==
    \A i \in DOMAIN hist :
        (Delivered(i) /\ hist[i].st.sp = 255) =>
            LET p == hist[i].st
                q == After(i) IN
            /\ Load(q.ram, 510) = p.pc \div 256
            /\ Load(q.ram, 509) = p.pc % 256
            /\ Load(q.ram, 508) = Or(p.flags, 24)
            /\ Changed(p, q) \subseteq {508, 509, 510}
            /\ Load(q.ram, 511) = Load(p.ram, 511)
            /\ Devices(q) = Devices(p)
            /\ q.sp = 252
            /\ q.pc = Vector(p, INTERRUPT_VECTOR)
            /\ ~q.aborted

C3_Witness ==
    /\ Did(1, "reset") /\ Ran(2, {CLI}) /\ Delivered(3)
    /\ hist[3].st.sp = 255 /\ hist[3].st.pc = 32769
    /\ Load(hist[3].st.ram, 511) = 239
    /\ Load(ram, 511) = 239 /\ Load(ram, 510) = 128 /\ Load(ram, 509) = 1
    /\ Load(ram, 508) = 56
    /\ sp = 252 /\ pc = 32784

C5_IrqDropped ==
    \A i \in DOMAIN hist :
        Dropped(i) =>
            LET p == hist[i].st IN
            /\ After(i) = p
            /\ Ran(i + 1, {CLI}) =>
                   After(i + 1) = [p EXCEPT !.pc = U16(p.pc + 1),
                                            !.flags = And(p.flags, 251)]
            /\ Did(i + 1, "tick") =>
                   \E rf \in RndVals, rd \in RndVals : After(i + 1) = tick(p, rf, rd)
            /\ Did(i + 1, "interrupt_request") => After(i + 1) = p
            /\ (Ran(i + 1, {CLI}) /\ Did(i + 2, "interrupt_request")) =>
                   /\ After(i + 2).sp = U8(p.sp - 3)
                   /\ After(i + 2).pc = Vector(p, INTERRUPT_VECTOR)

C5_Witness ==
    /\ Dropped(1) /\ Ran(2, {CLI}) /\ Delivered(3)
    /\ hist[1].st.flags = 255 /\ hist[1].st.sp = 0 /\ hist[1].st.ram # <<>>
    /\ hist[2].st = hist[1].st
    /\ hist[3].st.sp = 0 /\ hist[3].st.flags = 251
    /\ sp = 253 /\ pc = 32784

RomProbes == {32768, 32769, 36864, 65530, 65532, 65534, 65535}

\* the absolute operand of the instruction at pc
Operand(s) ==
    Map_read_byte(s, U16(s.pc + 1), 0) + 256 * Map_read_byte(s, U16(s.pc + 2), 0)

\* C8: after every sequence of write_byte, write_word, tick, interrupt_request and
\* non_maskable_interrupt, read_byte(a) of every ROM address a returns what it
\* returned before the sequence; a write to a ROM address changes nothing and does
\* not abort.
C8_RomImmutable ==
    /\ hist # <<>> =>
        LET p == hist[1].st
            q == Machine IN
        /\ q.rom = p.rom
        /\ \A ad \in RomProbes :
               Map_read_byte(q, ad, 0) = Map_read_byte(p, ad, 0)
    /\ \A i \in DOMAIN hist :
        LET p == hist[i].st IN
        /\ (hist[i].op \in {"write_byte", "write_word"} /\ hist[i].arg[2] >= 32768) =>
               After(i) = p
        /\ (Did(i, "tick") /\ Fetched(i) = STA_ABSOLUTE /\ Operand(p) >= 32768) =>
               After(i) = [p EXCEPT !.pc = U16(p.pc + 3)]

C8_Witness ==
    /\ Ran(1, {STA_ABSOLUTE}) /\ Ran(2, {STA_ABSOLUTE}) /\ Did(3, "write_word")
    /\ Operand(hist[2].st) = 32768 /\ hist[2].st.a = 90
    /\ hist[3].arg = <<42330, 65535>>
    /\ rom = RomA /\ Map_read_byte(Machine, 32768, 0) = 169
    /\ Map_read_byte(Machine, 65535, 0) = 160
    /\ ~aborted

\* the framebuffer range of the memory map, 0x6010 .. 0x7010 inclusive
InRange(address) == address \in 24592 .. 28688

\* C9: write_byte(v, a) sets the framebuffer-dirty flag iff a is in 0x6010..0x7010,
\* write_word(v, a) sets it iff a or a + 1 is in that range (a = 0x600F included),
\* any other write leaves the flag as it was, and no operation of the bus or the
\* CPU clears it.
C9_DirtyFlag ==
    \A i \in DOMAIN hist :
        LET p == hist[i].st
            q == After(i) IN
        /\ Did(i, "write_byte") =>
               q.fbuf_changed = (p.fbuf_changed \/ InRange(hist[i].arg[2]))
        /\ Did(i, "write_word") =>
               q.fbuf_changed = (\/ p.fbuf_changed
                                 \/ InRange(hist[i].arg[2])
                                 \/ InRange(hist[i].arg[2] + 1))
        /\ p.fbuf_changed => q.fbuf_changed

C9_Witness ==
    /\ Did(1, "write_word") /\ hist[1].arg[2] = 24591 /\ ~hist[1].st.fbuf_changed
    /\ Did(2, "interrupt_request") /\ Did(3, "reset")
    /\ hist[2].st.fbuf_changed /\ hist[2].st.interrupt_id = 90
    /\ Load(hist[2].st.ram, 24592) = 165
    /\ fbuf_changed

\* C10: with the program A9 05 8D 00 60 at the reset-vector target, after reset()
\* and two tick() calls A = 5, the port-B register is 5, a byte read of 0x6000
\* returns 5 and the RAM is as it was; and no tick() changes a byte of the RAM
\* that lies under the I/O window 0x6000..0x600F.
C10_StoreToPortB ==
    \A i \in DOMAIN hist :
        LET p == hist[i].st IN
        /\ (/\ Did(i, "reset") /\ Did(i + 1, "tick") /\ Did(i + 2, "tick")
            /\ \A k \in 1 .. 5 :
                   Map_read_byte(p, U16(After(i).pc + k - 1), 0)
                       = <<169, 5, 141, 0, 96>>[k]) =>
               LET r == After(i + 2) IN
               /\ r.a = 5
               /\ r.port_b = 5
               /\ Map_read_byte(r, 24576, 0) = 5
               /\ r.ram = p.ram
               /\ Load(r.ram, 24576) = Load(p.ram, 24576)
               /\ r.pc = U16(After(i).pc + 5)
               /\ ~r.aborted
        /\ Did(i, "tick") =>
               \A ad \in 24576 .. 24591 : Load(After(i).ram, ad) = Load(p.ram, ad)

C10_Witness ==
    /\ Did(1, "reset") /\ Ran(2, {LDA_IMMEDIATE}) /\ Ran(3, {STA_ABSOLUTE})
    /\ hist[2].st.pc = 32768 /\ hist[1].st.port_b = 0
    /\ a = 5 /\ port_b = 5 /\ Map_read_byte(Machine, 24576, 0) = 5
    /\ pc = 32773 /\ ram = <<>>

\* the opcode table: every opcode byte that tick() has an arm for
OpcodeTable == ImpliedOps \cup OneByteOps \cup TwoByteOps \cup ControlOps

\* C11: for every opcode byte that is not in the opcode table, tick() advances pc
\* by 1 (mod 2^16) and changes nothing else of the machine, and does not abort, so
\* that the next tick() runs; so does every sequence of unknown opcodes.
C11_UnknownOpcode ==
    \A i \in DOMAIN hist :
        (Did(i, "tick") /\ Fetched(i) \notin OpcodeTable) =>
            /\ After(i) = [hist[i].st EXCEPT !.pc = U16(@ + 1)]
            /\ ~After(i).aborted

C11_Witness ==
    /\ Len(hist) = 3
    /\ \A i \in 1 .. 3 : Did(i, "tick") /\ Fetched(i) \notin OpcodeTable
    /\ Fetched(1) = 2 /\ Fetched(2) = 255
    /\ hist[1].st.pc = 65534 /\ hist[1].st.flags = 255 /\ hist[1].st.sp = 1
    /\ pc = 1 /\ flags = 255 /\ sp = 1 /\ ~aborted

\* operation i of the run is a bus write of which a byte falls on 0x6008
WritesCartridgeData(i) ==
    \/ Did(i, "write_byte") /\ hist[i].arg[2] = 24584
    \/ Did(i, "write_word") /\ (hist[i].arg[2] = 24584 \/ hist[i].arg[2] + 1 = 24584)

\* C12: every write that targets the cartridge-data register aborts, as a byte
\* write to 0x6008 or as a word write of which the low or the high byte falls on
\* 0x6008, and no other operation aborts.
C12_CartridgeWriteAborts ==
    \A i \in DOMAIN hist :
        /\ WritesCartridgeData(i) => After(i).aborted
        /\ (After(i).aborted /\ hist[i].op # "tick") => WritesCartridgeData(i)

\* what the code does: the byte write to 0x6008 aborts
C12_ByteWriteAborts ==
    \A i \in DOMAIN hist :
        (Did(i, "write_byte") /\ hist[i].arg[2] = 24584) =>
            After(i) = [hist[i].st EXCEPT !.aborted = TRUE]

\* what the code does: the word write to 0x6008 changes nothing and does not abort
C12_WordWriteGoesOn ==
    \A i \in DOMAIN hist :
        (Did(i, "write_word") /\ hist[i].arg[2] = 24584) => After(i) = hist[i].st

\* what the code does: nothing but a byte write to 0x6008, from the bus or from a
\* store instruction, aborts
C12_NothingElseAborts ==
    \A i \in DOMAIN hist :
        After(i).aborted =>
            \/ Did(i, "write_byte") /\ hist[i].arg[2] = 24584
            \/ Did(i, "tick") /\ Fetched(i) \in {STA_ABSOLUTE, STX_ABSOLUTE, STY_ABSOLUTE,
                                                  STA_ABSOLUTE_X, STA_ABSOLUTE_Y,
                                                  STA_INDIRECT_X, STA_INDIRECT_Y,
                                                  INC_ABSOLUTE, INC_ABSOLUTE_X,
                                                  DEC_ABSOLUTE, DEC_ABSOLUTE_X,
                                                  ASL_ABSOLUTE, ASL_ABSOLUTE_X,
                                                  LSR_ABSOLUTE, LSR_ABSOLUTE_X,
                                                  ROL_ABSOLUTE, ROL_ABSOLUTE_X,
                                                  ROR_ABSOLUTE, ROR_ABSOLUTE_X}

\* the stack page 0x0100 .. 0x01FF
StackPage == 256 .. 511

\* operation i of the run pushes: a delivered interrupt, or PHA, PHP, JSR, or a
\* BRK that found IRQ-disable clear
Pushes(i) ==
    \/ Delivered(i)
    \/ Did(i, "non_maskable_interrupt")
    \/ Ran(i, {PHA, PHP, JSR})
    \/ Ran(i, {BRK}) /\ And(hist[i].st.flags, IRQ_DISABLE_FLAG) = 0

\* C13: every byte a push writes and every byte a pop reads lies in 0x0100..0x01FF
\* for every SP, a push decrements SP before it writes, a pop reads before it
\* increments SP, and SP wraps modulo 256 without an error.
C13_StackDiscipline ==
    \A i \in DOMAIN hist :
        LET p == hist[i].st
            q == After(i) IN
        /\ Pushes(i) => Changed(p, q) \subseteq StackPage
        /\ Ran(i, {PHA}) =>
               q.sp = U8(p.sp - 1) /\ Load(q.ram, 256 + q.sp) = p.a
        /\ Ran(i, {PLA}) =>
               q.sp = U8(p.sp + 1) /\ q.a = Load(p.ram, 256 + p.sp)
        /\ Did(i, "tick") /\ Fetched(i) = RTS =>
               /\ q.sp = U8(p.sp + 2)
               /\ q.pc = Load(p.ram, 256 + p.sp) + 256 * Load(p.ram, 256 + U8(p.sp + 1))
        /\ (Pushes(i) \/ (Did(i, "tick") /\ Fetched(i) \in {PLA, PLP, RTS, RTI})) =>
               ~q.aborted

\* what the code does: a byte push or pop stays in the stack page; a word push
\* writes 0x0100 | (SP - 2) and the address after it, a word pop reads 0x0100 | SP
\* and the address after it, and that address is 0x0200 when the first is 0x01FF
C13_WordLeavesStackPage ==
    \A i \in DOMAIN hist :
        LET p == hist[i].st
            q == After(i)
            w == 256 + U8(p.sp - 2) IN
        /\ Ran(i, {PHA, PHP}) =>
               /\ Changed(p, q) \subseteq {256 + U8(p.sp - 1)}
               /\ q.sp = U8(p.sp - 1)
        /\ Ran(i, {PLA}) => q.sp = U8(p.sp + 1) /\ q.a = Load(p.ram, 256 + p.sp)
        /\ Ran(i, {JSR}) =>
               /\ Changed(p, q) \subseteq {w, w + 1}
               /\ Load(q.ram, w) = U16(p.pc + 3) % 256
               /\ Load(q.ram, w + 1) = U16(p.pc + 3) \div 256
               /\ q.sp = U8(p.sp - 2)
        /\ (Delivered(i) \/ Did(i, "non_maskable_interrupt")) =>
               /\ Changed(p, q) \subseteq {w, w + 1, 256 + U8(p.sp - 3)}
               /\ Load(q.ram, w) = p.pc % 256
               /\ Load(q.ram, w + 1) = p.pc \div 256
               /\ q.sp = U8(p.sp - 3)
        /\ Ran(i, {RTS}) =>
               /\ q.sp = U8(p.sp + 2)
               /\ q.pc = Load(p.ram, 256 + p.sp) + 256 * Load(p.ram, 256 + p.sp + 1)

\* a word push from SP = 1 has written 0x0200
C13_WroteAbovePage ==
    /\ Delivered(1) /\ hist[1].st.sp = 1 /\ hist[1].st.pc = 512
    /\ Load(hist[1].st.ram, 512) = 141
    /\ Load(ram, 512) = 2 /\ Load(ram, 511) = 0 /\ sp = 254

\* the word that two byte reads compose, low byte first
TwoByteReads(s, address) ==
    Map_read_byte(s, address, 0) + 256 * Map_read_byte(s, U16(address + 1), 0)

\* the addresses of which neither byte is the random source (register 9)
NoRandom == (IoAddrs \cup {65534}) \ {24584, 24585}

\* C14: for every address a of which neither byte is the random source,
\* read_word(a) = read_byte(a) | (read_byte((a + 1) mod 2^16) << 8): in the I/O
\* window, at 0x5FFF, at 0x7FFF and at 0xFFFF too.
C14_ReadWordLittleEndian ==
    \A address \in NoRandom :
        Map_read_word(Machine, address, 0) = TwoByteReads(Machine, address)

\* what the code does: the word is the two byte reads everywhere but at 0x5FFF
\* (the high byte is the RAM byte under the register window, not port B), at
\* 0x600E (the word is 0, not the interrupt-id latch shifted) and at 0xFFFF (the
\* high byte is the first byte of the ROM, not RAM[0])
C14_ReadWordButThree ==
    /\ \A address \in NoRandom \ {24575, 24590, 65535} :
           Map_read_word(Machine, address, 0) = TwoByteReads(Machine, address)
    /\ Map_read_word(Machine, 24575, 0) = Load(ram, 24575) + 256 * Load(ram, 24576)
    /\ Map_read_word(Machine, 24590, 0) = 0
    /\ Map_read_word(Machine, 65535, 0) = Load(rom, 32767) + 256 * Load(rom, 0)

\* RAM outside the register window
GeneralRam(address) == address \in (0 .. 32767) \ (24576 .. 24591)

\* C15: write_word(v, a) stores the low byte at a and the high byte at a + 1
\* whenever that byte's address is general RAM, and drops only a byte of which the
\* address is in ROM; so for a and a + 1 both in general RAM (0x7FFE included)
\* read_word(a) then returns v, and write_word(v, 0x7FFF) stores the low byte only.
C15_WordWriteByRegion ==
    \A i \in DOMAIN hist :
        Did(i, "write_word") =>
            LET p == hist[i].st
                q == After(i)
                v == hist[i].arg[1]
                address == hist[i].arg[2] IN
            /\ GeneralRam(address) => Load(q.ram, address) = v % 256
            /\ GeneralRam(address + 1) => Load(q.ram, address + 1) = v \div 256
            /\ (GeneralRam(address) /\ GeneralRam(address + 1)) =>
                   Map_read_word(q, address, 0) = v
            /\ address = 32767 => Changed(p, q) \subseteq {32767} /\ q.rom = p.rom
            /\ address >= 32768 => q = p

\* what the code does: the high byte is stored when a + 1 < 0x7FFF, so that the
\* word write at 0x7FFE drops it and leaves RAM[0x7FFF] as it was
C15_WordWriteButTopOfRam ==
    \A i \in DOMAIN hist :
        Did(i, "write_word") =>
            LET p == hist[i].st
                q == After(i)
                v == hist[i].arg[1]
                address == hist[i].arg[2] IN
            /\ GeneralRam(address) => Load(q.ram, address) = v % 256
            /\ (GeneralRam(address + 1) /\ address # 32766) =>
                   Load(q.ram, address + 1) = v \div 256
            /\ (GeneralRam(address) /\ GeneralRam(address + 1) /\ address # 32766) =>
                   Map_read_word(q, address, 0) = v
            /\ address = 32766 =>
                   /\ Changed(p, q) \subseteq {32766}
                   /\ Load(q.ram, 32767) = Load(p.ram, 32767)
                   /\ Map_read_word(q, address, 0) = (v % 256) + 256 * Load(p.ram, 32767)
            /\ address = 32767 => Changed(p, q) \subseteq {32767} /\ q.rom = p.rom
            /\ address >= 32768 => q = p

\* the register bank
Regs(s) ==
    [port_a |-> s.port_a, port_b |-> s.port_b, keyb |-> s.keyb,
     mouse_x |-> s.mouse_x, mouse_y |-> s.mouse_y, rom_ptr |-> s.rom_ptr,
     interrupt_id |-> s.interrupt_id]

\* write_byte(v & 0xFF, address) followed by write_byte(v >> 8, address + 1)
TwoByteWrites(s, v, address) ==
    Map_write_byte(Map_write_byte(s, v % 256, address), v \div 256, address + 1)

\* C16: for every value v and register index i in 0..6 and 0xA..0xE,
\* write_word(v, 0x6000 + i) leaves the register bank as write_byte(v & 0xFF,
\* 0x6000 + i) followed by write_byte(v >> 8, 0x6000 + i + 1) leaves it.
C16_WordWriteIsTwoByteWrites ==
    \A i \in DOMAIN hist :
        (/\ Did(i, "write_word")
         /\ hist[i].arg[2] - 24576 \in (0 .. 6) \cup (10 .. 14)) =>
            Regs(After(i)) = Regs(TwoByteWrites(hist[i].st, hist[i].arg[1], hist[i].arg[2]))

\* what the code does: the two agree for the indices 0..5 and 0xA..0xD; at index 6
\* the word write clears the high byte of the cartridge pointer, where the byte
\* writes store v >> 8; at index 0xE the word write leaves the interrupt-id latch,
\* where the second byte write sets it
C16_WordWriteButTwoIndices ==
    \A i \in DOMAIN hist :
        Did(i, "write_word") =>
            LET p == hist[i].st
                q == After(i)
                v == hist[i].arg[1]
                address == hist[i].arg[2] IN
            /\ address - 24576 \in (0 .. 5) \cup (10 .. 13) =>
                   Regs(q) = Regs(TwoByteWrites(p, v, address))
            /\ address = 24582 =>
                   /\ q = [p EXCEPT !.rom_ptr = (p.rom_ptr % 256) + 256 * (v % 256)]
                   /\ Regs(TwoByteWrites(p, v, address)).rom_ptr
                          = (p.rom_ptr % 256) + 256 * v
            /\ address = 24590 =>
                   /\ q = p
                   /\ Regs(TwoByteWrites(p, v, address))
                          = [Regs(p) EXCEPT !.interrupt_id = v \div 256]

\* C17: write_word(v, 0x600F) sets the interrupt-id latch to v & 0xFF, stores
\* v >> 8 in RAM at 0x6010 and sets the framebuffer-dirty flag, and changes nothing
\* else; read_word(0x600F) returns latch | (RAM[0x6010] << 8), so that it returns v
\* after the write; a byte write of 0x600F changes the latch only and a byte read
\* returns the latch.
C17_LatchWord ==
    /\ \A rnd \in RndVals :
           /\ Map_read_word(Machine, 24591, rnd) = interrupt_id + 256 * Load(ram, 24592)
           /\ Map_read_byte(Machine, 24591, rnd) = interrupt_id
    /\ \A i \in DOMAIN hist :
           LET p == hist[i].st
               q == After(i)
               v == hist[i].arg[1] IN
           /\ (Did(i, "write_word") /\ hist[i].arg[2] = 24591) =>
                  /\ q = [p EXCEPT !.interrupt_id = v % 256,
                                   !.ram = Store(@, 24592, v \div 256),
                                   !.fbuf_changed = TRUE]
                  /\ Load(q.ram, 24592) = v \div 256
                  /\ Map_read_word(q, 24591, 0) = v
           /\ (Did(i, "write_byte") /\ hist[i].arg[2] = 24591) =>
                  /\ q = [p EXCEPT !.interrupt_id = v]
                  /\ Map_read_byte(q, 24591, 0) = v

C17_Witness ==
    /\ Did(1, "write_word") /\ hist[1].arg = <<42330, 24591>>
    /\ ~hist[1].st.fbuf_changed /\ hist[1].st.interrupt_id = 97
    /\ Load(hist[1].st.ram, 24592) = 34
    /\ fbuf_changed /\ interrupt_id = 90 /\ Load(ram, 24592) = 165
    /\ Map_read_word(Machine, 24591, 0) = 42330

\* the invalid register indices 0xA .. 0xE, as bus addresses
InvalidRegs == 24586 .. 24590

\* C18: for the register indices 0xA..0xE a byte read and a word read return 0,
\* and a byte write and a word write change no register, no RAM byte and not the
\* dirty flag; none of them aborts.
C18_InvalidRegisters ==
    /\ \A address \in InvalidRegs, rnd \in RndVals :
           /\ Map_read_byte(Machine, address, rnd) = 0
           /\ Map_read_word(Machine, address, rnd) = 0
    /\ \A i \in DOMAIN hist :
           (/\ hist[i].op \in {"write_byte", "write_word"}
            /\ hist[i].arg[2] \in InvalidRegs) =>
               /\ After(i) = hist[i].st
               /\ ~After(i).aborted

C18_Witness ==
    /\ Did(1, "write_word") /\ hist[1].arg = <<65535, 24590>>
    /\ hist[1].st.interrupt_id = 97 /\ ~hist[1].st.fbuf_changed
    /\ interrupt_id = 97 /\ ram = RamB /\ ~fbuf_changed /\ ~aborted
    /\ Map_read_word(Machine, 24590, 0) = 0
    /\ Map_read_byte(Machine, 24586, 0) = 0

\* the operand byte of the instruction at pc
Immediate(s) == Map_read_byte(s, U16(s.pc + 1), 0)

\* the flags that an addition of m and the carry c to A leaves, from the flags f
AddFlags(f, a_reg, m, c) ==
    LET sum == a_reg + m + c
        res == sum % 256
        given(cond, flag) == IF cond THEN flag ELSE 0 IN
    (f - And(f, 195))
        + given(sum > 255, CARRY_FLAG)
        + given(res = 0, ZERO_FLAG)
        + given((a_reg >= 128) = (m >= 128) /\ (res >= 128) # (a_reg >= 128), OVERFLOW_FLAG)
        + given(res >= 128, NEGATIVE_FLAG)

\* C19: for every A, operand m and carry-in c, ADC leaves A' = (A + m + c) mod 256,
\* Carry = (A + m + c > 0xFF), Overflow = (A and m have the same sign bit and A' has
\* the other one), Zero = (A' = 0), Negative = bit 7 of A'; SBC of m does what ADC
\* of m XOR 0xFF does; the Decimal flag changes neither result, and neither changes
\* it.
C19_AdcSbc ==
    \A i \in DOMAIN hist :
        LET p == hist[i].st
            q == After(i)
            m == Immediate(p)
            c == p.flags % 2 IN
        /\ Ran(i, {ADC_IMMEDIATE}) =>
               /\ q.a = (p.a + m + c) % 256
               /\ q.flags = AddFlags(p.flags, p.a, m, c)
               /\ q = [p EXCEPT !.a = q.a, !.flags = q.flags, !.pc = U16(p.pc + 2)]
        /\ Ran(i, {SBC_IMMEDIATE}) =>
               /\ q.a = (p.a + (255 - m) + c) % 256
               /\ q.flags = AddFlags(p.flags, p.a, 255 - m, c)
               /\ q = [p EXCEPT !.a = q.a, !.flags = q.flags, !.pc = U16(p.pc + 2)]

C19_Witness ==
    /\ Ran(1, {ADC_IMMEDIATE}) /\ Ran(2, {CLC}) /\ Ran(3, {SBC_IMMEDIATE})
    /\ hist[1].st.a = 128 /\ Immediate(hist[1].st) = 128 /\ hist[1].st.flags = 203
    /\ hist[2].st.a = 1 /\ hist[2].st.flags = 73
    /\ hist[3].st.flags = 72
    /\ a = 128 /\ flags = 200

\* ticks i, i + 1 and i + 2 of the run are ADC #m, then CLC or SEC, then SBC #m
AdcThenSbc(i) ==
    /\ Ran(i, {ADC_IMMEDIATE}) /\ Ran(i + 1, {CLC, SEC}) /\ Ran(i + 2, {SBC_IMMEDIATE})
    /\ Immediate(hist[i].st) = Immediate(hist[i + 2].st)

\* the Carry flag of a machine, 0 or 1
Carry(s) == s.flags % 2

\* C20 as stated: ADC then SBC of the same operand, with Carry forced to the same
\* value c before each, returns A to its value before the ADC.
C20_AdcSbcInverse ==
    \A i \in DOMAIN hist :
        (AdcThenSbc(i) /\ Carry(hist[i + 2].st) = Carry(hist[i].st)) =>
            After(i + 2).a = hist[i].st.a

\* C20, amended: ADC then SBC of the same operand, with Carry forced to the same
\* value c before each, leaves A one off: (A + 2c - 1) mod 256, that is A - 1 for
\* c = 0 and A + 1 for c = 1; A returns to its value when Carry is forced to c
\* before the ADC and to 1 - c before the SBC.
C20_AdcSbcOneOff ==
    \A i \in DOMAIN hist :
        AdcThenSbc(i) =>
            LET a0 == hist[i].st.a
                c == Carry(hist[i].st) IN
            /\ Carry(hist[i + 2].st) = c => After(i + 2).a = (a0 + 255 + 2 * c) % 256
            /\ Carry(hist[i + 2].st) = c => After(i + 2).a # a0
            /\ Carry(hist[i + 2].st) = 1 - c => After(i + 2).a = a0

C20_Witness ==
    /\ AdcThenSbc(1)
    /\ hist[1].st.a = 0 /\ Immediate(hist[1].st) = 128
    /\ Carry(hist[1].st) = 0 /\ Carry(hist[3].st) = 0
    /\ hist[3].st.a = 128
    /\ a = 255

\* the opcodes of the table that address an operand, by the addressing mode their
\* name gives
Mode ==
    [immediate |-> {LDA_IMMEDIATE, LDX_IMMEDIATE, LDY_IMMEDIATE, AND_IMMEDIATE,
         EOR_IMMEDIATE, ORA_IMMEDIATE, ADC_IMMEDIATE, SBC_IMMEDIATE, CMP_IMMEDIATE,
         CPX_IMMEDIATE, CPY_IMMEDIATE},
     zero_page |-> {LDA_ZERO_PAGE, LDX_ZERO_PAGE, LDY_ZERO_PAGE, STA_ZERO_PAGE,
         STX_ZERO_PAGE, STY_ZERO_PAGE, INC_ZERO_PAGE, DEC_ZERO_PAGE, AND_ZERO_PAGE,
         EOR_ZERO_PAGE, ORA_ZERO_PAGE, BIT_ZERO_PAGE, ADC_ZERO_PAGE, SBC_ZERO_PAGE,
         CMP_ZERO_PAGE, CPX_ZERO_PAGE, CPY_ZERO_PAGE, ASL_ZERO_PAGE, LSR_ZERO_PAGE,
         ROL_ZERO_PAGE, ROR_ZERO_PAGE},
     zero_page_x |-> {LDA_ZERO_PAGE_X, LDY_ZERO_PAGE_X, STA_ZERO_PAGE_X,
         STY_ZERO_PAGE_X, INC_ZERO_PAGE_X, DEC_ZERO_PAGE_X, AND_ZERO_PAGE_X,
         EOR_ZERO_PAGE_X, ORA_ZERO_PAGE_X, ADC_ZERO_PAGE_X, SBC_ZERO_PAGE_X,
         CMP_ZERO_PAGE_X, ASL_ZERO_PAGE_X, LSR_ZERO_PAGE_X, ROL_ZERO_PAGE_X,
         ROR_ZERO_PAGE_X},
     zero_page_y |-> {LDX_ZERO_PAGE_Y, STX_ZERO_PAGE_Y},
     absolute |-> {LDA_ABSOLUTE, LDX_ABSOLUTE, LDY_ABSOLUTE, STA_ABSOLUTE,
         STX_ABSOLUTE, STY_ABSOLUTE, INC_ABSOLUTE, DEC_ABSOLUTE, AND_ABSOLUTE,
         EOR_ABSOLUTE, ORA_ABSOLUTE, BIT_ABSOLUTE, ADC_ABSOLUTE, SBC_ABSOLUTE,
         CMP_ABSOLUTE, CPX_ABSOLUTE, CPY_ABSOLUTE, ASL_ABSOLUTE, LSR_ABSOLUTE,
         ROL_ABSOLUTE, ROR_ABSOLUTE},
     absolute_x |-> {LDA_ABSOLUTE_X, LDY_ABSOLUTE_X, STA_ABSOLUTE_X, INC_ABSOLUTE_X,
         DEC_ABSOLUTE_X, AND_ABSOLUTE_X, EOR_ABSOLUTE_X, ORA_ABSOLUTE_X,
         ADC_ABSOLUTE_X, SBC_ABSOLUTE_X, CMP_ABSOLUTE_X, ASL_ABSOLUTE_X,
         LSR_ABSOLUTE_X, ROL_ABSOLUTE_X, ROR_ABSOLUTE_X},
     absolute_y |-> {LDA_ABSOLUTE_Y, LDX_ABSOLUTE_Y, STA_ABSOLUTE_Y, AND_ABSOLUTE_Y,
         EOR_ABSOLUTE_Y, ORA_ABSOLUTE_Y, ADC_ABSOLUTE_Y, SBC_ABSOLUTE_Y,
         CMP_ABSOLUTE_Y},
     indirect_x |-> {LDA_INDIRECT_X, STA_INDIRECT_X, AND_INDIRECT_X, EOR_INDIRECT_X,
         ORA_INDIRECT_X, ADC_INDIRECT_X, SBC_INDIRECT_X, CMP_INDIRECT_X},
     indirect_y |-> {LDA_INDIRECT_Y, STA_INDIRECT_Y, AND_INDIRECT_Y, EOR_INDIRECT_Y,
         ORA_INDIRECT_Y, ADC_INDIRECT_Y, SBC_INDIRECT_Y, CMP_INDIRECT_Y}]

\* the address of the operand of the instruction at s.pc, as the arm of tick for
\* its opcode computes it: the sum of a zero-page base and an index is a 16-bit
\* sum but for LDA, and LDY zero-page,X adds y
operand_address(s) ==
    LET opcode == Map_read_byte(s, s.pc, 0)
        b == Map_read_byte(s, U16(s.pc + 1), 0)
        w == Or(b, Map_read_byte(s, U16(s.pc + 2), 0) * 256) IN
    CASE opcode \in Mode.zero_page -> b
      [] opcode = LDA_ZERO_PAGE_X -> U8(b + s.x)
      [] opcode = LDY_ZERO_PAGE_X -> b + s.y
      [] opcode \in Mode.zero_page_x \ {LDA_ZERO_PAGE_X, LDY_ZERO_PAGE_X} -> b + s.x
      [] opcode \in Mode.zero_page_y -> b + s.y
      [] opcode \in Mode.absolute -> w
      [] opcode \in Mode.absolute_x -> U16(w + s.x)
      [] opcode \in Mode.absolute_y -> U16(w + s.y)
      [] opcode \in Mode.indirect_x -> Map_read_word(s, U8(b + s.x), 0)
      [] opcode \in Mode.indirect_y -> U16(Map_read_word(s, b, 0) + s.y)
      [] OTHER -> U16(s.pc + 1)

\* the byte that the instruction at s.pc works on: a register, the byte after the
\* opcode, or the byte at the operand's address
operand_value(s) ==
    LET opcode == Map_read_byte(s, s.pc, 0) IN
    IF opcode \in {INX, DEX} THEN s.x
    ELSE IF opcode \in {INY, DEY} THEN s.y
    ELSE IF opcode \in ImpliedOps THEN s.a
    ELSE Map_read_byte(s, operand_address(s), 0)

\* one instruction at 0x0200 with its operand byte m where its addressing mode
\* looks for it (zero-page base 0x40, absolute base 0x0340, pointer to 0x0360),
\* the registers and the flags as given, and BRK after it
OpMachine(opcode, m, ra, rx, ry, f) ==
    LET s == [Running(512, 255, f, 90, RomA, <<>>, <<>>, FALSE)
                 EXCEPT !.a = ra, !.x = rx, !.y = ry]
        absolute == opcode \in Mode.absolute \cup Mode.absolute_x \cup Mode.absolute_y
        bytes == IF opcode \in ImpliedOps THEN <<>>
                 ELSE IF opcode \in Mode.immediate THEN << <<513, m>> >>
                 ELSE IF absolute THEN << <<513, 64>>, <<514, 3>> >>
                 ELSE << <<513, 64>> >>
        cells == CASE opcode \in Mode.zero_page -> << <<64, m>> >>
                   [] opcode \in Mode.zero_page_x -> << <<64 + rx, m>> >>
                   [] opcode \in Mode.zero_page_y -> << <<64 + ry, m>> >>
                   [] opcode \in Mode.absolute -> << <<832, m>> >>
                   [] opcode \in Mode.absolute_x -> << <<832 + rx, m>> >>
                   [] opcode \in Mode.absolute_y -> << <<832 + ry, m>> >>
                   [] opcode \in Mode.indirect_x ->
                          << <<64 + rx, 96>>, <<65 + rx, 3>>, <<864, m>> >>
                   [] opcode \in Mode.indirect_y ->
                          << <<64, 96 - ry>>, <<65, 3>>, <<864, m>> >>
                   [] OTHER -> <<>>
    IN  Poke(s, << <<512, opcode>> >> \o bytes \o cells)

\* values at the borders of the signed and the unsigned range, and every value
\* against them
EdgeBytes == {0, 1, 127, 128, 255}
EdgePairs == ((0 .. 255) \X EdgeBytes) \cup (EdgeBytes \X (0 .. 255))

\* the opcodes of the table by the operation of their name
Ops ==
    [lda |-> {LDA_IMMEDIATE, LDA_ZERO_PAGE, LDA_ZERO_PAGE_X, LDA_ABSOLUTE,
         LDA_ABSOLUTE_X, LDA_ABSOLUTE_Y, LDA_INDIRECT_X, LDA_INDIRECT_Y},
     ldx |-> {LDX_IMMEDIATE, LDX_ZERO_PAGE, LDX_ZERO_PAGE_Y, LDX_ABSOLUTE,
         LDX_ABSOLUTE_Y},
     ldy |-> {LDY_IMMEDIATE, LDY_ZERO_PAGE, LDY_ZERO_PAGE_X, LDY_ABSOLUTE,
         LDY_ABSOLUTE_X},
     sta |-> {STA_ZERO_PAGE, STA_ZERO_PAGE_X, STA_ABSOLUTE, STA_ABSOLUTE_X,
         STA_ABSOLUTE_Y, STA_INDIRECT_X, STA_INDIRECT_Y},
     stx |-> {STX_ZERO_PAGE, STX_ZERO_PAGE_Y, STX_ABSOLUTE},
     sty |-> {STY_ZERO_PAGE, STY_ZERO_PAGE_X, STY_ABSOLUTE},
     and |-> {AND_IMMEDIATE, AND_ZERO_PAGE, AND_ZERO_PAGE_X, AND_ABSOLUTE,
         AND_ABSOLUTE_X, AND_ABSOLUTE_Y, AND_INDIRECT_X, AND_INDIRECT_Y},
     eor |-> {EOR_IMMEDIATE, EOR_ZERO_PAGE, EOR_ZERO_PAGE_X, EOR_ABSOLUTE,
         EOR_ABSOLUTE_X, EOR_ABSOLUTE_Y, EOR_INDIRECT_X, EOR_INDIRECT_Y},
     ora |-> {ORA_IMMEDIATE, ORA_ZERO_PAGE, ORA_ZERO_PAGE_X, ORA_ABSOLUTE,
         ORA_ABSOLUTE_X, ORA_ABSOLUTE_Y, ORA_INDIRECT_X, ORA_INDIRECT_Y},
     adc |-> {ADC_IMMEDIATE, ADC_ZERO_PAGE, ADC_ZERO_PAGE_X, ADC_ABSOLUTE,
         ADC_ABSOLUTE_X, ADC_ABSOLUTE_Y, ADC_INDIRECT_X, ADC_INDIRECT_Y},
     sbc |-> {SBC_IMMEDIATE, SBC_ZERO_PAGE, SBC_ZERO_PAGE_X, SBC_ABSOLUTE,
         SBC_ABSOLUTE_X, SBC_ABSOLUTE_Y, SBC_INDIRECT_X, SBC_INDIRECT_Y},
     cmp |-> {CMP_IMMEDIATE, CMP_ZERO_PAGE, CMP_ZERO_PAGE_X, CMP_ABSOLUTE,
         CMP_ABSOLUTE_X, CMP_ABSOLUTE_Y, CMP_INDIRECT_X, CMP_INDIRECT_Y},
     cpx |-> {CPX_IMMEDIATE, CPX_ZERO_PAGE, CPX_ABSOLUTE},
     cpy |-> {CPY_IMMEDIATE, CPY_ZERO_PAGE, CPY_ABSOLUTE},
     asl |-> {ASL_ACCUMULATOR, ASL_ZERO_PAGE, ASL_ZERO_PAGE_X, ASL_ABSOLUTE,
         ASL_ABSOLUTE_X},
     lsr |-> {LSR_ACCUMULATOR, LSR_ZERO_PAGE, LSR_ZERO_PAGE_X, LSR_ABSOLUTE,
         LSR_ABSOLUTE_X},
     rol |-> {ROL_ACCUMULATOR, ROL_ZERO_PAGE, ROL_ZERO_PAGE_X, ROL_ABSOLUTE,
         ROL_ABSOLUTE_X},
     ror |-> {ROR_ACCUMULATOR, ROR_ZERO_PAGE, ROR_ZERO_PAGE_X, ROR_ABSOLUTE,
         ROR_ABSOLUTE_X},
     inc |-> {INX, INY, INC_ZERO_PAGE, INC_ZERO_PAGE_X, INC_ABSOLUTE,
         INC_ABSOLUTE_X},
     dec |-> {DEX, DEY, DEC_ZERO_PAGE, DEC_ZERO_PAGE_X, DEC_ABSOLUTE,
         DEC_ABSOLUTE_X},
     bit |-> {BIT_ZERO_PAGE, BIT_ABSOLUTE},
     branch |-> {BEQ, BNE, BCS, BCC, BMI, BPL, BVS, BVC}]

\* one instruction in front of the CPU, with index registers 2 and 3 where they
\* are free.  The compares: the immediate ones on every value against the border
\* values, all of them on the border values and with either value of each flag.
\* The shifts and rotates: those of the accumulator on every value, all of them on
\* the border values and some bit patterns, with Carry clear and set.  The
\* increments and decrements likewise, those of X and Y on every value.  BIT on
\* every value of A against the border values and the reverse.  The branches at
\* 0x0200, at the top of RAM and at the top of the address space, with offsets at
\* the borders of the signed range, with each flag alone set and alone clear.
\* Three instructions in a row that read or write the random-number register.
\* JSR to an RTS, and PHA / LDA #0 / PLA, with every stack pointer.
OpMachines ==
    LET compares == Ops.cmp \cup Ops.cpx \cup Ops.cpy
        shifts == Ops.asl \cup Ops.lsr \cup Ops.rol \cup Ops.ror
        C(opcode, r, m, f) ==
            OpMachine(opcode, m,
                      IF opcode \in Ops.cmp THEN r ELSE Xor(r, 85),
                      IF opcode \in Ops.cpx THEN r ELSE 2,
                      IF opcode \in Ops.cpy THEN r ELSE 3, f)
        S(opcode, m, f) ==
            OpMachine(opcode, m, IF opcode \in ImpliedOps THEN m ELSE 51, 2, 3, f)
        steps == Ops.inc \cup Ops.dec
        I(opcode, m, f) ==
            OpMachine(opcode, m, 51, IF opcode \in {INX, DEX} THEN m ELSE 2,
                      IF opcode \in {INY, DEY} THEN m ELSE 3, f)
        B(opcode, r, m, f) == OpMachine(opcode, m, r, 2, 3, f)
        J(opcode, p, m, f) ==
            Poke([OpMachine(NOP, 0, 51, 2, 3, f) EXCEPT !.pc = p, !.ram = <<>>],
                 << <<p, opcode>>, <<U16(p + 1), m>> >>)
        R(first, second, third, r) ==
            Poke(OpMachine(NOP, 0, r, r, r, 66),
                 << <<512, first>>, <<513, 9>>, <<514, 96>>,
                    <<515, second>>, <<516, 9>>, <<517, 96>>,
                    <<518, third>>, <<519, 9>>, <<520, 96>> >>)
        K(p, target, s_p) ==
            Poke([OpMachine(NOP, 0, 51, 2, 3, 66) EXCEPT !.pc = p, !.sp = s_p],
                 << <<p, JSR>>, <<U16(p + 1), target % 256>>,
                    <<U16(p + 2), target \div 256>>, <<target, RTS>> >>)
        H(r, s_p) ==
            Poke([OpMachine(NOP, 0, r, 2, 3, 66) EXCEPT !.sp = s_p],
                 << <<512, PHA>>, <<513, LDA_IMMEDIATE>>, <<514, 0>>, <<515, PLA>> >>) IN
    {C(opcode, c[1], c[2], 66) : opcode \in compares \cap Mode.immediate, c \in EdgePairs}
    \cup {C(opcode, c[1], c[2], f) :
              opcode \in compares, c \in EdgeBytes \X EdgeBytes, f \in {66, 129}}
    \cup {S(opcode, m, f) : opcode \in shifts \cap ImpliedOps, m \in 0 .. 255, f \in {66, 129}}
    \cup {S(opcode, m, f) :
              opcode \in shifts, m \in EdgeBytes \cup {2, 64, 85, 170}, f \in {66, 129}}
    \cup {I(opcode, m, f) : opcode \in steps \cap ImpliedOps, m \in 0 .. 255, f \in {66, 129}}
    \cup {I(opcode, m, f) :
              opcode \in steps, m \in EdgeBytes \cup {2, 64, 85, 170}, f \in {66, 129}}
    \cup {B(opcode, c[1], c[2], 1) : opcode \in Ops.bit, c \in EdgePairs}
    \cup {B(opcode, c[1], c[2], f) :
              opcode \in Ops.bit, c \in {85, 170, 192} \X {64, 85, 170, 192},
              f \in {1, 194}}
    \cup {J(opcode, p, m, f) :
              opcode \in Ops.branch, p \in {512, 32767, 65534},
              m \in {0, 1, 2, 127, 128, 129, 254, 255},
              f \in {0, 1, 2, 64, 128, 127, 191, 253, 254, 255}}
    \cup {R(c[1], c[2], c[3], r) :
              c \in {<<LDA_ABSOLUTE, LDX_ABSOLUTE, STA_ABSOLUTE>>,
                     <<LDY_ABSOLUTE, LDA_ABSOLUTE, STX_ABSOLUTE>>,
                     <<STY_ABSOLUTE, LDX_ABSOLUTE, LDY_ABSOLUTE>>,
                     <<LDA_ABSOLUTE, STA_ABSOLUTE, LDA_ABSOLUTE>>},
              r \in {0, 255}}
    \cup {K(512, target, s_p) : target \in {832, 36864}, s_p \in 0 .. 255}
    \cup {K(65533, 832, s_p) : s_p \in {0, 1, 2, 255}}
    \cup {H(165, s_p) : s_p \in 0 .. 255}

InitOps == \E s \in OpMachines : Start(s, <<>>)

SpecOps == InitOps /\ [][NextInstr]_vars

\* the register that a compare opcode compares
CompareReg(s) ==
    LET opcode == Map_read_byte(s, s.pc, 0) IN
    IF opcode \in Ops.cpx THEN s.x ELSE IF opcode \in Ops.cpy THEN s.y ELSE s.a

\* C21: for every register value r (A for CMP, X for CPX, Y for CPY) and operand m,
\* the compare sets Zero = (r = m), Negative = bit 7 of ((r - m) mod 256) and
\* Carry = (r >= m unsigned), and leaves the Overflow flag, the other flags, the
\* registers and the memory unchanged.
C21_Compare ==
    \A i \in DOMAIN hist :
        Ran(i, Ops.cmp \cup Ops.cpx \cup Ops.cpy) =>
            LET p == hist[i].st
                q == After(i)
                r == CompareReg(p)
                m == operand_value(p)
                given(cond, flag) == IF cond THEN flag ELSE 0 IN
            /\ q.flags = (p.flags - And(p.flags, 131))
                         + given(r = m, ZERO_FLAG)
                         + given(((r - m) % 256) >= 128, NEGATIVE_FLAG)
                         + given(r >= m, CARRY_FLAG)
            /\ And(q.flags, OVERFLOW_FLAG) = And(p.flags, OVERFLOW_FLAG)
            /\ [q EXCEPT !.pc = 0, !.flags = 0] = [p EXCEPT !.pc = 0, !.flags = 0]

C21_Witness ==
    /\ Ran(1, {CPX_IMMEDIATE})
    /\ hist[1].st.x = 127 /\ Immediate(hist[1].st) = 128 /\ hist[1].st.flags = 66
    /\ hist[1].st.a = 42
    /\ Len(hist) = 1 /\ flags = 192 /\ x = 127 /\ a = 42

\* the byte that instruction i of the run left where its operand was
Stored(i) ==
    IF Fetched(i) \in {INX, DEX} THEN After(i).x
    ELSE IF Fetched(i) \in {INY, DEY} THEN After(i).y
    ELSE IF Fetched(i) \in ImpliedOps THEN After(i).a
    ELSE Map_read_byte(After(i), operand_address(hist[i].st), 0)

\* C22 as stated: all four shift/rotate operations shift the operand right by one
\* bit: ASL and LSR produce (operand >> 1), ROL produces (operand >> 1) with the old
\* Carry inserted into bit 7, and ROR produces (operand >> 1) with the old Carry
\* inserted into bit 0.
C22_ShiftsRight ==
    \A i \in DOMAIN hist :
        LET p == hist[i].st
            m == operand_value(p) IN
        /\ Ran(i, Ops.asl \cup Ops.lsr) => Stored(i) = m \div 2
        /\ Ran(i, Ops.rol) => Stored(i) = (m \div 2) + 128 * Carry(p)
        /\ Ran(i, Ops.ror) => Stored(i) = Or(m \div 2, Carry(p))

\* C22, amended: ASL, LSR and ROR shift the operand right by one bit and ROL shifts
\* it left: ASL and LSR produce (operand >> 1), ROL produces ((operand << 1) mod 256)
\* with the old Carry inserted into bit 0, and ROR produces (operand >> 1) with the
\* old Carry inserted into bit 7.
C22_ShiftDirections ==
    \A i \in DOMAIN hist :
        LET p == hist[i].st
            m == operand_value(p) IN
        /\ Ran(i, Ops.asl \cup Ops.lsr) => Stored(i) = m \div 2
        /\ Ran(i, Ops.rol) => Stored(i) = ((m * 2) % 256) + Carry(p)
        /\ Ran(i, Ops.ror) => Stored(i) = (m \div 2) + 128 * Carry(p)

C22_Witness ==
    /\ Ran(1, {ROL_ZERO_PAGE_X})
    /\ hist[1].st.flags = 129 /\ hist[1].st.x = 2 /\ Load(hist[1].st.ram, 66) = 85
    /\ Len(hist) = 1 /\ Load(ram, 66) = 171 /\ a = 51

\* shift or rotate i of the run left Carry = out, Zero and Negative as its stored
\* result has them, and changed nothing but the flags, pc and the place of its
\* operand
ShiftLeaves(i, out) ==
    LET p == hist[i].st
        q == After(i)
        given(cond, flag) == IF cond THEN flag ELSE 0 IN
    /\ q.flags = (p.flags - And(p.flags, 131)) + out
                 + given(Stored(i) = 0, ZERO_FLAG)
                 + given(Stored(i) >= 128, NEGATIVE_FLAG)
    /\ IF Fetched(i) \in ImpliedOps
       THEN [q EXCEPT !.pc = 0, !.flags = 0, !.a = 0]
                = [p EXCEPT !.pc = 0, !.flags = 0, !.a = 0]
       ELSE /\ [q EXCEPT !.pc = 0, !.flags = 0, !.ram = <<>>]
                   = [p EXCEPT !.pc = 0, !.flags = 0, !.ram = <<>>]
            /\ Changed(p, q) \subseteq {operand_address(p)}

\* C23: for each of ASL, LSR, ROL and ROR and every operand, the new Carry equals
\* the bit of the operand that the operation's shift removes from the stored result
\* (bit 0 for the shifts to the right ASL, LSR and ROR, bit 7 for ROL), Zero and
\* Negative are recomputed from the stored 8-bit result, and the result is written
\* back to the accumulator or to the same memory address the operand was read from.
C23_CarryIsBitShiftedOut ==
    \A i \in DOMAIN hist :
        LET m == operand_value(hist[i].st) IN
        /\ Ran(i, Ops.asl \cup Ops.lsr \cup Ops.ror) => ShiftLeaves(i, m % 2)
        /\ Ran(i, Ops.rol) => ShiftLeaves(i, m \div 128)

\* what the code does: ASL takes Carry from bit 7 of the operand, the other three
\* from the bit they shift out
C23_CarryButAsl ==
    \A i \in DOMAIN hist :
        LET m == operand_value(hist[i].st) IN
        /\ Ran(i, Ops.lsr \cup Ops.ror) => ShiftLeaves(i, m % 2)
        /\ Ran(i, Ops.asl \cup Ops.rol) => ShiftLeaves(i, m \div 128)

\* C24: INC, INX and INY set the target to (v + 1) mod 256 and set Carry exactly
\* when v = 0xFF; DEC, DEX and DEY set the target to (v - 1) mod 256 and set Carry
\* exactly when v = 0x00; in every other case Carry is cleared, and Zero/Negative
\* are taken from the new 8-bit value.
C24_IncDec ==
    \A i \in DOMAIN hist :
        LET p == hist[i].st
            q == After(i)
            v == operand_value(p)
            given(cond, flag) == IF cond THEN flag ELSE 0
            Flags(carry) == given(carry, CARRY_FLAG) + given(Stored(i) = 0, ZERO_FLAG)
                            + given(Stored(i) >= 128, NEGATIVE_FLAG) IN
        /\ Ran(i, Ops.inc) =>
               Stored(i) = (v + 1) % 256 /\ And(q.flags, 131) = Flags(v = 255)
        /\ Ran(i, Ops.dec) =>
               Stored(i) = (v + 255) % 256 /\ And(q.flags, 131) = Flags(v = 0)

C24_Witness ==
    /\ Ran(1, {DEC_ABSOLUTE_X})
    /\ hist[1].st.flags = 66 /\ hist[1].st.x = 2 /\ Load(hist[1].st.ram, 834) = 0
    /\ Len(hist) = 1 /\ Load(ram, 834) = 255 /\ flags = 193 /\ x = 2

\* C25: BIT (zero-page and absolute) sets Zero = ((A & operand) = 0), Overflow =
\* bit 6 of the operand and Negative = bit 7 of the operand, and leaves A, X, Y, SP,
\* Carry, the other flags and memory unchanged.
C25_Bit ==
    \A i \in DOMAIN hist :
        Ran(i, Ops.bit) =>
            LET p == hist[i].st
                q == After(i)
                m == operand_value(p)
                given(cond, flag) == IF cond THEN flag ELSE 0 IN
            /\ q.flags = (p.flags - And(p.flags, 194))
                         + given(And(p.a, m) = 0, ZERO_FLAG)
                         + given((m \div 64) % 2 = 1, OVERFLOW_FLAG)
                         + given(m \div 128 = 1, NEGATIVE_FLAG)
            /\ And(q.flags, CARRY_FLAG) = And(p.flags, CARRY_FLAG)
            /\ [q EXCEPT !.pc = 0, !.flags = 0] = [p EXCEPT !.pc = 0, !.flags = 0]

C25_Witness ==
    /\ Ran(1, {BIT_ABSOLUTE})
    /\ hist[1].st.a = 170 /\ Load(hist[1].st.ram, 832) = 85 /\ hist[1].st.flags = 1
    /\ Len(hist) = 1 /\ flags = 67 /\ a = 170 /\ Load(ram, 832) = 85

\* tick number i of the run ran an opcode of ops that it fetched from memory, not
\* from the random source at 0x6009
Executed(i, ops) == Ran(i, ops) /\ hist[i].st.pc # 24585

Entered(i) ==
    \/ Delivered(i)
    \/ Did(i, "non_maskable_interrupt")
    \/ Executed(i, {BRK}) /\ And(hist[i].st.flags, IRQ_DISABLE_FLAG) = 0

Addressed(i, ea) ==
    LET p == hist[i].st
        q == After(i)
        opcode == Fetched(i)
        c == Carry(p)
        given(cond, flag) == IF cond THEN flag ELSE 0
        Compared(r, m) == And(q.flags, 131) = given(r = m, ZERO_FLAG)
                              + given(((r - m) % 256) >= 128, NEGATIVE_FLAG)
                              + given(r >= m, CARRY_FLAG)
        Wrote(v) == Memory(q) = Memory(Map_write_byte(p, v, ea))
        Acted(m) ==
            CASE opcode \in Ops.lda -> q.a = m
              [] opcode \in Ops.ldx -> q.x = m
              [] opcode \in Ops.ldy -> q.y = m
              [] opcode \in Ops.sta -> Wrote(p.a)
              [] opcode \in Ops.stx -> Wrote(p.x)
              [] opcode \in Ops.sty -> Wrote(p.y)
              [] opcode \in Ops.and -> q.a = And(p.a, m)
              [] opcode \in Ops.eor -> q.a = Xor(p.a, m)
              [] opcode \in Ops.ora -> q.a = Or(p.a, m)
              [] opcode \in Ops.adc -> q.a = (p.a + m + c) % 256
              [] opcode \in Ops.sbc -> q.a = (p.a + (255 - m) + c) % 256
              [] opcode \in Ops.cmp -> Compared(p.a, m)
              [] opcode \in Ops.cpx -> Compared(p.x, m)
              [] opcode \in Ops.cpy -> Compared(p.y, m)
              [] opcode \in Ops.bit ->
                     And(q.flags, 194) = given(And(p.a, m) = 0, ZERO_FLAG) + And(m, 192)
              [] opcode \in Ops.inc -> Wrote((m + 1) % 256)
              [] opcode \in Ops.dec -> Wrote((m + 255) % 256)
              [] opcode \in Ops.asl \cup Ops.lsr -> Wrote(m \div 2)
              [] opcode \in Ops.rol -> Wrote(((m * 2) % 256) + c)
              [] opcode \in Ops.ror -> Wrote((m \div 2) + 128 * c)
    IN  \E r \in RndVals : Acted(Map_read_byte(p, ea, r))

\* C28: for every zero-page, zero-page,X and zero-page,Y instruction (loads, stores,
\* INC/DEC, logical, ADC/SBC, CMP, shifts/rotates) and every operand byte and index
\* value, the effective address has high byte 0: the instruction works on the byte
\* at (operand + index) mod 256, in 0x0000..0x00FF, the index being the register
\* that the instruction adds.
C28_ZeroPageWraps ==
    \A i \in DOMAIN hist :
        Executed(i, Mode.zero_page \cup Mode.zero_page_x \cup Mode.zero_page_y) =>
            LET p == hist[i].st
                index == IF Fetched(i) \in Mode.zero_page THEN 0
                         ELSE IF Fetched(i) \in Mode.zero_page_y \cup {LDY_ZERO_PAGE_X}
                         THEN p.y ELSE p.x IN
            Addressed(i, (Immediate(p) + index) % 256)

\* what the code does: the instruction works on the byte at the address of its arm
\* of tick, which is above the zero page when the sum exceeds 0xFF, but for LDA
C28_ZeroPageSums ==
    \A i \in DOMAIN hist :
        Executed(i, Mode.zero_page \cup Mode.zero_page_x \cup Mode.zero_page_y) =>
            /\ Addressed(i, operand_address(hist[i].st))
            /\ Fetched(i) \in Mode.zero_page \cup {LDA_ZERO_PAGE_X} =>
                   operand_address(hist[i].st) <= 255

\* a store through zero-page,X went above the zero page
C28_StoredAbovePage ==
    /\ Executed(1, {STA_ZERO_PAGE_X}) /\ Len(hist) = 1
    /\ hist[1].st.x = 2 /\ Immediate(hist[1].st) = 255 /\ hist[1].st.a = 1
    /\ Load(hist[1].st.ram, 1) = 96 /\ Load(hist[1].st.ram, 257) = 0
    /\ Load(ram, 1) = 96 /\ Load(ram, 257) = 1

\* the register that the addressing mode of an opcode names as its index
NamedIndex(s, opcode) ==
    IF opcode \in Mode.zero_page_x \cup Mode.absolute_x THEN s.x ELSE s.y

\* C29: every indexed instruction indexes with the register its addressing mode
\* names: each zero-page,X and absolute,X opcode adds X to the base address and each
\* zero-page,Y and absolute,Y opcode adds Y, for all of LDA, LDX, LDY, STA, STX, STY
\* and the arithmetic/logical/shift opcodes (in particular LDY zero-page,X reads
\* from base + X).  The sum is taken in the width that the instruction adds in.
C29_NamedIndex ==
    \A i \in DOMAIN hist :
        LET p == hist[i].st
            index == NamedIndex(p, Fetched(i)) IN
        /\ Executed(i, {LDA_ZERO_PAGE_X}) =>
               Addressed(i, (Immediate(p) + index) % 256)
        /\ Executed(i, (Mode.zero_page_x \cup Mode.zero_page_y) \ {LDA_ZERO_PAGE_X}) =>
               Addressed(i, Immediate(p) + index)
        /\ Executed(i, Mode.absolute_x \cup Mode.absolute_y) =>
               Addressed(i, U16(Operand(p) + index))

\* what the code does: every indexed instruction but LDY zero-page,X adds the
\* register that its addressing mode names, and LDY zero-page,X adds Y
C29_NamedIndexButLdy ==
    \A i \in DOMAIN hist :
        LET p == hist[i].st
            index == NamedIndex(p, Fetched(i)) IN
        /\ Executed(i, {LDA_ZERO_PAGE_X}) =>
               Addressed(i, (Immediate(p) + index) % 256)
        /\ Executed(i, (Mode.zero_page_x \cup Mode.zero_page_y)
                           \ {LDA_ZERO_PAGE_X, LDY_ZERO_PAGE_X}) =>
               Addressed(i, Immediate(p) + index)
        /\ Executed(i, {LDY_ZERO_PAGE_X}) => Addressed(i, Immediate(p) + p.y)
        /\ Executed(i, Mode.absolute_x \cup Mode.absolute_y) =>
               Addressed(i, U16(Operand(p) + index))

\* LDY zero-page,X loaded the byte at base + Y where base + X holds another one
C29_LdyAddedY ==
    /\ Executed(1, {LDY_ZERO_PAGE_X}) /\ Len(hist) = 1
    /\ hist[1].st.x = 0 /\ hist[1].st.y = 1 /\ Immediate(hist[1].st) = 128
    /\ Load(hist[1].st.ram, 128) = 129 /\ Load(hist[1].st.ram, 129) = 0
    /\ y = 0 /\ x = 0

\* C30: for each branch opcode at address p with operand byte b: BEQ/BNE test Zero,
\* BCS/BCC test Carry, BMI/BPL test Negative, BVS/BVC test Overflow; when the
\* condition holds pc becomes (p + 2 + signed8(b)) mod 2^16, otherwise pc becomes
\* p + 2; no register, flag or memory byte changes.
C30_Branch ==
    \A i \in DOMAIN hist :
        Executed(i, Ops.branch) =>
            LET p == hist[i].st
                b == Immediate(p)
                opcode == Fetched(i)
                flag == CASE opcode \in {BEQ, BNE} -> ZERO_FLAG
                          [] opcode \in {BCS, BCC} -> CARRY_FLAG
                          [] opcode \in {BMI, BPL} -> NEGATIVE_FLAG
                          [] opcode \in {BVS, BVC} -> OVERFLOW_FLAG
                taken == (And(p.flags, flag) # 0) = (opcode \in {BEQ, BCS, BMI, BVS})
                offset == IF b >= 128 THEN b - 256 ELSE b IN
            After(i) = [p EXCEPT !.pc = IF taken THEN (p.pc + 2 + offset + 65536) % 65536
                                        ELSE (p.pc + 2) % 65536]

C30_Witness ==
    /\ Executed(1, {BVC}) /\ Executed(2, {BRK}) /\ Len(hist) = 2
    /\ hist[1].st.pc = 65534 /\ Immediate(hist[1].st) = 129 /\ hist[1].st.flags = 191
    /\ hist[2].st.pc = 65409 /\ hist[2].st.flags = 191

\* the address of I/O register 9, the random source
RNG == 24585

\* the register that a load or transfer opcode writes, in the machine s
Loaded(s, opcode) ==
    IF opcode \in Ops.ldx \cup {TAX, TSX} THEN s.x
    ELSE IF opcode \in Ops.ldy \cup {TAY} THEN s.y ELSE s.a

\* C31: a byte read of I/O register 9 returns a value in 0..254, never 255, and
\* changes no state (a load from it changes only the loaded register, the flags
\* and pc); a byte write to register 9 changes no state (a store to it changes
\* only pc) and does not abort.
C31_Rng ==
    \A i \in DOMAIN hist :
        LET p == hist[i].st
            q == After(i) IN
        /\ ( /\ Executed(i, Ops.lda \cup Ops.ldx \cup Ops.ldy)
             /\ operand_address(p) = RNG ) =>
                /\ Loaded(q, Fetched(i)) \in 0 .. 254
                /\ ~q.aborted
                /\ q = [p EXCEPT !.a = IF Fetched(i) \in Ops.lda THEN q.a ELSE @,
                                 !.x = IF Fetched(i) \in Ops.ldx THEN q.x ELSE @,
                                 !.y = IF Fetched(i) \in Ops.ldy THEN q.y ELSE @,
                                 !.flags = q.flags, !.pc = q.pc]
        /\ ( /\ Executed(i, Ops.sta \cup Ops.stx \cup Ops.sty)
             /\ operand_address(p) = RNG ) =>
                q = [p EXCEPT !.pc = q.pc]

\* two reads in a row returned different values, and a write followed them
C31_Witness ==
    /\ Len(hist) = 3
    /\ Executed(1, Ops.lda) /\ operand_address(hist[1].st) = RNG
    /\ Executed(2, Ops.ldx) /\ operand_address(hist[2].st) = RNG
    /\ Executed(3, Ops.sta) /\ operand_address(hist[3].st) = RNG
    /\ hist[2].st.a # hist[3].st.x
    /\ ~aborted /\ Machine = [hist[3].st EXCEPT !.pc = 521]

\* IRQ-disable is set in the machine s
Masked(s) == And(s.flags, IRQ_DISABLE_FLAG) # 0

\* operation i of the run is a tick that executes CLI, PLP or RTI
Unmasking(i) ==
    /\ Did(i, "tick")
    /\ \E rf \in RndVals : Map_read_byte(hist[i].st, hist[i].st.pc, rf) \in {CLI, PLP, RTI}

\* C32: IRQ-disable is set after reset(), after every delivered
\* interrupt_request() and after every BRK; only a tick executing CLI, PLP or RTI
\* clears it; from such a point to the next CLI/PLP/RTI tick every
\* interrupt_request() is dropped: it changes neither SP nor anything else, so
\* maskable interrupts do not nest.
C32_InterruptMasking ==
    \A i \in DOMAIN hist :
        LET p == hist[i].st
            q == After(i) IN
        /\ (Did(i, "reset") \/ Delivered(i) \/ Executed(i, {BRK})) => Masked(q)
        /\ (Masked(p) /\ ~Masked(q)) => Unmasking(i)
        /\ \A j \in DOMAIN hist :
               ( /\ i < j /\ Masked(q) /\ Did(j, "interrupt_request")
                 /\ \A k \in (i + 1) .. (j - 1) : ~Unmasking(k) ) =>
                     After(j) = hist[j].st

\* a delivered request, a tick in its handler that is not CLI, PLP or RTI, and a
\* second request that is dropped
C32_Witness ==
    /\ Len(hist) = 3
    /\ Delivered(1) /\ Did(2, "tick") /\ ~Unmasking(2) /\ Did(3, "interrupt_request")
    /\ hist[2].st.sp = U8(hist[1].st.sp - 3)
    /\ hist[3].st.pc # hist[2].st.pc
    /\ Masked(hist[3].st) /\ Machine = hist[3].st

\* C33: a key-down, key-up or left/right mouse-button event that arrives while
\* IRQ-disable is set leaves the CPU registers, the flags, the stack and the RAM
\* unchanged and delivers no interrupt, then or after a later CLI, but overwrites
\* the latches with the values the event carries: a key event the keyboard latch
\* (its scancode as a byte) and the interrupt-id latch, a mouse-button event, which
\* carries no key, the interrupt-id latch.  A read of 0x600F then returns the new
\* id: the id of an earlier delivered event is lost.
C33_MaskedEvent ==
    \A i \in DOMAIN hist :
        LET p == hist[i].st
            q == After(i)
            op == hist[i].op
            key == op \in {"on_key_down", "on_key_up"}
            button == op = "on_mouse_button_down" /\ hist[i].arg[1] \in {"Left", "Right"}
            id == CASE op = "on_key_down" -> 255
                    [] op = "on_key_up" -> 254
                    [] op = "on_mouse_button_down" ->
                           IF hist[i].arg[1] = "Left" THEN 253 ELSE 252 IN
        ((key \/ button) /\ Masked(p)) =>
            /\ q = [p EXCEPT !.keyb = IF key THEN hist[i].arg[1] % 256 ELSE @,
                             !.interrupt_id = id]
            /\ Map_read_byte(q, 24591, 0) = id
            /\ Ran(i + 1, {CLI}) =>
                   After(i + 1) = [q EXCEPT !.pc = U16(q.pc + 1),
                                            !.flags = q.flags - IRQ_DISABLE_FLAG]

\* a key-down is delivered, a left click arrives before the handler has run, and
\* the handler's LDA $600F reads the id of the click
C33_Witness ==
    /\ Len(hist) = 3
    /\ hist[1].op = "on_key_down" /\ hist[1].arg = <<300>> /\ ~Masked(hist[1].st)
    /\ hist[2].op = "on_mouse_button_down" /\ hist[2].arg = <<"Left">>
    /\ hist[2].st.pc = 41200 /\ hist[2].st.sp = 252 /\ hist[2].st.interrupt_id = KEYDOWN
    /\ hist[2].st.keyb = 44
    /\ Executed(3, {LDA_ABSOLUTE})
    /\ hist[3].st = [hist[2].st EXCEPT !.interrupt_id = MOUSE_LCLICK]
    /\ a = MOUSE_LCLICK /\ pc = 41203 /\ keyb = 44 /\ sp = 252

\* C39: in an on_draw call of at least one tick the host looks at the dirty flag
\* and clears it after every CPU tick, so that each tick starts with the flag
\* clear; if a tick of the call wrote the framebuffer range, the renderer's tick
\* runs before on_draw returns; and when on_draw returns the dirty flag is false
\* and nothing else of the machine differs from what the last tick left.
C39_DrawLoop ==
    \A i \in DOMAIN hist :
        (Did(i, "on_draw") /\ hist[i].arg[1] >= 1 /\ ~After(i).aborted) =>
            LET p == hist[i].st
                q == After(i)
                ticks == hist[i].arg[1]
                rendered == hist[i].arg[3]
                ticked == hist[i].arg[4]
                Before(k) == IF k = 1 THEN p ELSE [ticked[k - 1] EXCEPT !.fbuf_changed = FALSE]
                Wrote(k) ==
                    \/ \E ad \in Changed(Before(k), ticked[k]) : ad >= 24592 /\ ad <= 28688
                    \/ ~Before(k).fbuf_changed /\ ticked[k].fbuf_changed IN
            /\ Len(ticked) = ticks
            /\ \A k \in 1 .. ticks :
                   \E rf \in RndVals, rd \in RndVals : ticked[k] = tick(Before(k), rf, rd)
            /\ (\E k \in 1 .. ticks : Wrote(k)) => rendered
            /\ ~q.fbuf_changed
            /\ q = [ticked[ticks] EXCEPT !.fbuf_changed = FALSE]

\* a draw of two ticks, STA $6010 and STA $8000: the first sets the dirty flag,
\* the second finds it clear and leaves it clear, and the renderer runs
C39_Witness ==
    /\ Len(hist) = 1 /\ Did(1, "on_draw")
    /\ hist[1].arg[1] = 2 /\ ~hist[1].arg[2] /\ hist[1].arg[3]
    /\ ~hist[1].st.fbuf_changed /\ Load(hist[1].st.ram, 24592) = 34
    /\ hist[1].arg[4][1].fbuf_changed /\ ~hist[1].arg[4][2].fbuf_changed
    /\ Load(ram, 24592) = 90 /\ pc = 518 /\ ~fbuf_changed /\ ~aborted

\* without a tick, a draw that the frame counter does not force leaves the dirty
\* flag set
C39_NoTickLeavesDirty ==
    /\ Did(1, "on_draw") /\ hist[1].arg[1] = 0 /\ ~hist[1].arg[2] /\ ~hist[1].arg[3]
    /\ hist[1].st.fbuf_changed /\ After(1).fbuf_changed

\* C34: for every SP, a JSR at address p to target t sets pc = t, pushes the word
\* p + 3 (low byte at 0x100 | SP - 2, high byte after it) and decreases SP by 2,
\* and an RTS executed next sets pc = p + 3 and restores SP, changing nothing
\* else; a PLA that follows a PHA with no stack access in between restores A and SP.
C34_JsrRts ==
    \A i \in DOMAIN hist :
        LET p == hist[i].st
            q == After(i)
            target == Map_read_byte(p, U16(p.pc + 1), 0)
                      + 256 * Map_read_byte(p, U16(p.pc + 2), 0)
            back == (p.pc + 3) % 65536 IN
        /\ Executed(i, {JSR}) =>
               /\ q.pc = target /\ q.sp = (p.sp + 254) % 256
               /\ Load(q.ram, 256 + q.sp) = back % 256
               /\ Load(q.ram, 256 + q.sp + 1) = back \div 256
               /\ q = [p EXCEPT !.pc = q.pc, !.sp = q.sp, !.ram = q.ram]
               /\ Executed(i + 1, {RTS}) =>
                      After(i + 1) = [q EXCEPT !.pc = back, !.sp = p.sp]
        /\ \A j \in DOMAIN hist :
               ( /\ i < j /\ Executed(i, {PHA}) /\ Executed(j, {PLA})
                 /\ \A k \in (i + 1) .. (j - 1) : Executed(k, {LDA_IMMEDIATE}) ) =>
                     After(j).a = p.a /\ After(j).sp = p.sp

\* JSR $0340 at 0x0200 with SP = 1 writes the word 0x0203 at 0x01FF and 0x0200,
\* and the RTS at 0x0340 returns to 0x0203 with SP = 1
C34_Witness ==
    /\ Len(hist) = 2 /\ Executed(1, {JSR}) /\ Did(2, "tick")
    /\ hist[1].st.pc = 512 /\ hist[1].st.sp = 1
    /\ hist[2].st.pc = 832 /\ hist[2].st.sp = 255
    /\ Load(hist[2].st.ram, 511) = 3 /\ Load(hist[2].st.ram, 512) = 2
    /\ pc = 515 /\ sp = 1

\* PHA with A = 0xA5, LDA #0 and PLA: A is 0xA5 again
C34_PhaPla ==
    /\ Len(hist) = 3 /\ Executed(1, {PHA}) /\ Executed(2, {LDA_IMMEDIATE})
    /\ Executed(3, {PLA})
    /\ hist[1].st.a = 165 /\ hist[1].st.sp = 0 /\ hist[3].st.a = 0 /\ hist[3].st.sp = 255
    /\ a = 165 /\ sp = 0

\* JSR at 0xFFFD returns to address 0
C34_ReturnWraps ==
    /\ Len(hist) = 2 /\ Executed(1, {JSR}) /\ Executed(2, {RTS})
    /\ hist[1].st.pc = 65533 /\ hist[1].st.sp = 0 /\ pc = 0 /\ sp = 0

ByteRegs == {0, 1, 2, 3, 4, 5, 6, 7, 15}

\* the byte write of v to register i took the machine from p to q: a read of the
\* register returns v, no other register differs, and of the cartridge pointer
\* only the byte that the register stands for
RoundTrip(p, q, v, i) ==
    LET Byte(s, k) == (s.rom_ptr \div 256 ^ k) % 256 IN
    /\ Map_read_byte(q, 24576 + i, 0) = v
    /\ \A j \in ByteRegs \ {i} : Map_read_byte(q, 24576 + j, 0) = Map_read_byte(p, 24576 + j, 0)
    /\ q.rom_ptr < 16777216
    /\ \A k \in 0 .. 2 : Byte(q, k) = IF i = 5 + k THEN v ELSE Byte(p, k)
    /\ q = [p EXCEPT !.port_b = q.port_b, !.port_a = q.port_a, !.keyb = q.keyb,
                     !.mouse_x = q.mouse_x, !.mouse_y = q.mouse_y,
                     !.rom_ptr = q.rom_ptr, !.interrupt_id = q.interrupt_id]

\* C36: for each register index i in {0,...,7,0xF} and every value v,
\* write_byte(v, 0x6000 + i) followed by read_byte(0x6000 + i) returns v and
\* changes no other register; the byte writes to registers 5, 6 and 7 set bits
\* 0-7, 8-15 and 16-23 of the cartridge pointer and leave its other bits unchanged.
C36_ByteRoundTrip ==
    /\ \A n \in DOMAIN hist :
           (Did(n, "write_byte") /\ hist[n].arg[2] - 24576 \in ByteRegs) =>
               RoundTrip(hist[n].st, After(n), hist[n].arg[1], hist[n].arg[2] - 24576)
    /\ hist = <<>> =>
           \A i \in ByteRegs, v \in 0 .. 255 :
               RoundTrip(Machine, Map_write_byte(Machine, v, 24576 + i), v, i)

\* 0x80 written to register 6 while the pointer is 0x010203: it is 0x018003 then
C36_Witness ==
    /\ Len(hist) = 1 /\ Did(1, "write_byte") /\ hist[1].arg = <<128, 24582>>
    /\ hist[1].st.rom_ptr = 66051 /\ rom_ptr = 98307
    /\ Map_read_byte(Machine, 24582, 0) = 128
    /\ Map_read_byte(Machine, 24581, 0) = 3 /\ Map_read_byte(Machine, 24583, 0) = 1

\* a load or transfer of ops left Zero and Negative as the value it wrote says
FlagsOfLoaded(i, ops) ==
    Executed(i, ops) =>
        LET q == After(i)
            value == Loaded(q, Fetched(i)) IN
        /\ (And(q.flags, ZERO_FLAG) # 0) = (value = 0)
        /\ (And(q.flags, NEGATIVE_FLAG) # 0) = (value >= 128)

\* C37: every load and transfer that writes A, X or Y (LDA, LDX and LDY in all
\* their addressing modes, immediate included, and TAX, TAY, TXA, TYA, TSX) sets
\* Zero = (loaded value = 0) and Negative = bit 7 of the loaded value.
C37_LoadFlags ==
    \A i \in DOMAIN hist :
        FlagsOfLoaded(i, Ops.lda \cup Ops.ldx \cup Ops.ldy \cup {TAX, TAY, TXA, TYA, TSX})

\* C37 holds of every load and transfer but LDX and LDY immediate
C37_LoadFlagsButImmediateXY ==
    \A i \in DOMAIN hist :
        FlagsOfLoaded(i, (Ops.lda \cup Ops.ldx \cup Ops.ldy \cup {TAX, TAY, TXA, TYA, TSX})
                             \ {LDX_IMMEDIATE, LDY_IMMEDIATE})

\* LDX and LDY immediate leave the flags as they were
C37_ImmediateXYKeepFlags ==
    \A i \in DOMAIN hist :
        Executed(i, {LDX_IMMEDIATE, LDY_IMMEDIATE}) => After(i).flags = hist[i].st.flags

\* LDX #0 with the Zero flag clear has left X = 0 and the Zero flag clear
C37_LdxZeroNotFlagged ==
    /\ Executed(1, {LDX_IMMEDIATE}) /\ hist[1].st.flags = 0 /\ hist[1].st.x # 0
    /\ After(1).x = 0 /\ After(1).flags = 0

\* the opcodes of the instructions that only read: loads, compares, BIT, the
\* logical and arithmetic instructions, branches, jumps, flag set/clear,
\* transfers and NOP
ReadOnlyOps ==
    Ops.lda \cup Ops.ldx \cup Ops.ldy \cup Ops.cmp \cup Ops.cpx \cup Ops.cpy
    \cup Ops.bit \cup Ops.and \cup Ops.ora \cup Ops.eor \cup Ops.adc \cup Ops.sbc
    \cup Ops.branch
    \cup {JMP_ABSOLUTE, JMP_INDIRECT, CLC, SEC, CLD, SED, CLI, SEI, CLV,
          TAX, TAY, TXA, TYA, TSX, TXS, NOP}

\* C38: an instruction that only reads performs no bus write and does not abort:
\* after its tick every RAM byte, every I/O register and the framebuffer-dirty
\* flag are as before; a compare changes only pc and, of the flags, Carry, Zero
\* and Negative.
C38_ReadOnly ==
    \A i \in DOMAIN hist :
        LET p == hist[i].st
            q == After(i) IN
        /\ ( /\ Did(i, "tick") /\ Fetched(i) \in ReadOnlyOps
             /\ p.pc # 24585 ) =>
                /\ ~q.aborted
                /\ Memory(q) = Memory(p)
        /\ Executed(i, Ops.cmp \cup Ops.cpx \cup Ops.cpy) =>
                /\ q = [p EXCEPT !.pc = q.pc, !.flags = q.flags]
                /\ \A k \in 2 .. 6 : (q.flags \div 2 ^ k) % 2 = (p.flags \div 2 ^ k) % 2

\* LDA $6010 and CMP $6000 have read the framebuffer and port B
C38_Witness ==
    /\ Len(hist) = 1
    /\ \/ /\ Executed(1, {LDA_ABSOLUTE}) /\ operand_address(hist[1].st) = 24592
           /\ a = 34 /\ hist[1].st.a # 34
        \/ /\ Executed(1, {CMP_ABSOLUTE}) /\ operand_address(hist[1].st) = 24576
           /\ hist[1].st.flags = 0 /\ flags # 0
    /\ ~fbuf_changed /\ ~aborted /\ Memory(Machine) = Memory(hist[1].st)

====
